---- MODULE Spec2Model ----
(***************************************************************************)
(* Model of the Partition of node-event-store (src/src/Partition.js): the  *)
(* segment file, the read buffer, the write buffer, the list of flush      *)
(* callbacks and the process.nextTick queue, at byte level; and of the     *)
(* event store on top of the partitions: commits with expected versions    *)
(* and joined streams, at the level of documents and index entries; of the *)
(* event streams that iterate over the store; of the index with its append *)
(* buffer; of the read-only storage (src/src/Storage/ReadOnlyStorage.js)   *)
(* that follows the files of a writer; and of the EventStream that wraps   *)
(* an iterator over storage documents.                                     *)
(*                                                                         *)
(* Bytes and characters are numbers: a character is its code point, a byte *)
(* its value 0..255.  Uninit marks a byte of a buffer that was allocated   *)
(* with Buffer.allocUnsafe[Slow] and never written: its value is arbitrary *)
(* and is chosen when it is read.                                          *)
(***************************************************************************)
EXTENDS Integers, Sequences, FiniteSets, TLC

\* ------------------------------------------------------------------ bounds
\* Number of documents written in one behaviour (nested writes included).
MaxDocs == 2
\* Number of operations the callers perform in one behaviour (the runs of the
\* nextTick queue are not counted).
MaxSteps == 5

\* Number of events committed to the store in one behaviour.
MaxEvents == 4
\* The read-only storage emits at most MaxNotifications events for the files of
\* its directory, and its index grows to at most MaxNotifications entries.
MaxNotifications == 3
\* Number of items of the iterator an iterator stream wraps.
MaxItems == 2
\* Number of directory watchers a read-only storage creates in one behaviour.
MaxOpens == 3
\* ------------------------------------------------------- inputs of the model
\* Payloads handed to write: "", "a", "é" (two UTF-8 bytes).
Payloads == { <<>>, <<97>>, <<233>> }
\* The payload a callback of kind "write" writes: "b".
NestedData == <<98>>
\* config.readBufferSize / config.writeBufferSize / config.maxWriteBufferDocuments.
\* The read buffer has 10 bytes more than readBufferSize: with 12 it spans the
\* length prefix of a second document, with 1 every document needs a refill and
\* a two-byte payload the one-shot buffer.  A write buffer of 24 bytes holds two
\* documents, one of 12 bytes holds one and sends longer documents around it.
Configs == { [readBufferSize |-> 12, writeBufferSize |-> 24, maxWriteBufferDocuments |-> 0],
             [readBufferSize |-> 12, writeBufferSize |-> 24, maxWriteBufferDocuments |-> 1],
             [readBufferSize |-> 1, writeBufferSize |-> 12, maxWriteBufferDocuments |-> 0] }
\* Configurations with a document threshold: 1 and 2 documents for a write buffer
\* of two documents, and 2 for a write buffer that longer documents go around.
ThresholdConfigs ==
    { [readBufferSize |-> 12, writeBufferSize |-> 24, maxWriteBufferDocuments |-> 1],
      [readBufferSize |-> 12, writeBufferSize |-> 24, maxWriteBufferDocuments |-> 2],
      [readBufferSize |-> 1, writeBufferSize |-> 12, maxWriteBufferDocuments |-> 2] }
\* Files a partition can find under its name when it is constructed: none (an
\* empty file is created by open), a file of another version of the format,
\* "nesprt02", and files that are not partitions, "nesidx01" and "xxxxxxxx",
\* each with the newline of the header and the last with 12 more bytes.
ForeignFiles ==
    { <<110, 101, 115, 112, 114, 116, 48, 50, 10>>,
      <<110, 101, 115, 105, 100, 120, 48, 49, 10>>,
      <<120, 120, 120, 120, 120, 120, 120, 120, 10,
        32, 32, 32, 32, 32, 32, 32, 32, 32, 49, 97, 10>> }
\* The write streams callers commit to, and a stream nobody commits to.
Streams == {"foo", "bar"}
MissingStream == "baz"
\* The numbers of events of one commit.
CommitSizes == {1, 2}
\* The callers that read a stream version and commit against it later.
Clients == {1, 2}
\* What a caller passes as callback: nothing, a function that does nothing,
\* a function that writes NestedData (with a function that does nothing as
\* its callback) the first time it is invoked.
\* The callback of that nested write is "inner".
CallbackKinds == {"none", "noop", "write"}
\* Arguments of truncate besides the current size: a negative one, and 12 (the
\* end of a first document of one byte, inside any longer first document).
TruncatePoints == {-1, 12}
\* Values an uninitialised buffer byte can be read as: NUL, space, '1'.
GarbageBytes == {0, 32, 49}

\* ------------------------------------------------------------- constants
HEADER_MAGIC == <<110, 101, 115, 112, 114, 116, 48, 49>>
Uninit == -1
Undefined == -1
Pending == -2

\* ------------------------------------------------------------- strings
Min(a, b) == IF a < b THEN a ELSE b
Max(a, b) == IF a > b THEN a ELSE b
Range(s) == { s[i] : i \in 1..Len(s) }

RECURSIVE repeat(_, _)
\* String.prototype.repeat for a one-character string.
repeat(char, n) == IF n <= 0 THEN <<>> ELSE <<char>> \o repeat(char, n - 1)

RECURSIVE toString(_)
\* Number.prototype.toString of a non-negative integer: its decimal digits.
toString(n) == IF n < 10 THEN <<48 + n>> ELSE toString(n \div 10) \o <<48 + (n % 10)>>

pad(str, len) == IF len > Len(str) THEN repeat(32, len - Len(str)) \o str ELSE str

RECURSIVE utf8Encode(_)
\* The UTF-8 bytes of a string (code points of the basic plane).
utf8Encode(str) ==
    IF str = <<>> THEN <<>>
    ELSE LET c == Head(str)
         IN (IF c < 128 THEN <<c>>
             ELSE IF c < 2048 THEN <<192 + (c \div 64), 128 + (c % 64)>>
             ELSE <<224 + (c \div 4096), 128 + ((c \div 64) % 64), 128 + (c % 64)>>)
            \o utf8Encode(Tail(str))

byteLength(str) == Len(utf8Encode(str))

RECURSIVE asciiEncode(_)
\* What Buffer.write(str, .., 'ascii') stores: one byte per character, its low 8 bits.
asciiEncode(str) ==
    IF str = <<>> THEN <<>> ELSE <<Head(str) % 256>> \o asciiEncode(Tail(str))

RECURSIVE utf8Decode(_)
\* Buffer.toString('utf8') for one- and two-byte sequences (no byte above 223
\* is ever stored by this model): invalid sequences decode to U+FFFD.
utf8Decode(bytes) ==
    IF bytes = <<>> THEN <<>>
    ELSE LET b == Head(bytes)
         IN IF b < 128 THEN <<b>> \o utf8Decode(Tail(bytes))
            ELSE IF b >= 194 /\ b <= 223 /\ Len(bytes) >= 2
                    /\ bytes[2] >= 128 /\ bytes[2] <= 191
                 THEN <<(b - 192) * 64 + (bytes[2] - 128)>> \o utf8Decode(Tail(Tail(bytes)))
                 ELSE <<65533>> \o utf8Decode(Tail(bytes))

\* buffer.toString('utf8', start, end): start and end are 0-based and clamped
\* to the buffer; an uninitialised byte is read as g.
bufferToString(buffer, start, end, g) ==
    LET e == Min(end, Len(buffer))
        raw == SubSeq(buffer, start + 1, e)
    IN utf8Decode([i \in 1..Len(raw) |-> IF raw[i] = Uninit THEN g ELSE raw[i]])

IsSpace(c) == c \in {9, 10, 11, 12, 13, 32}
IsDigit(c) == c >= 48 /\ c <= 57

\* /^\s+[0-9]+$/.test(str)
lengthPattern(str) ==
    \E k \in 1..(Len(str) - 1) :
        /\ \A i \in 1..k : IsSpace(str[i])
        /\ \A i \in (k + 1)..Len(str) : IsDigit(str[i])

RECURSIVE digitsValue(_)
digitsValue(str) ==
    IF str = <<>> THEN 0
    ELSE digitsValue(SubSeq(str, 1, Len(str) - 1)) * 10 + (str[Len(str)] - 48)

\* parseInt(str, 10) for a string that matches lengthPattern.
parseInt(str) == digitsValue(SelectSeq(str, IsDigit))

\* ------------------------------------------------------------- state
VARIABLES
    readBufferSize, writeBufferSize, maxWriteBufferDocuments,  \* config
    fd,                    \* TRUE iff the file is open
    readBuffer, readBufferPos,
    writeBuffer, writeBufferCursor, writeBufferDocuments,
    flushCallbacks,        \* ids of the documents whose callbacks wait for a flush
    size,
    file,                  \* the bytes of the partition file, header included
    ticks,                 \* the process.nextTick queue
    draining,              \* TRUE while the nextTick queue is being drained
    docs,                  \* history: one record per accepted write, in call order
    calls,                 \* history: the callback invocations, in order
    diskWrites,            \* history: number of fs.writeSync calls on the body
    bufDocs,               \* history: ids of the documents in the write buffer
    truncated,             \* history: TRUE once truncate has cut the file
    closed,                \* history: TRUE once close has closed the file
    steps,                 \* history: number of operations performed by the callers
    store,                 \* the event store: primary index, stream indexes, partitions
    prepared,              \* per client: the stream version it read and what became of its commit
    committed,             \* history: the events of the successful commits, in commit order
    eventStream,           \* the event stream a reader obtained from the event store
    index,                 \* an index: its file, its append buffer and its notifications
    reader                 \* a read-only storage: its partition map and what it emitted

config == <<readBufferSize, writeBufferSize, maxWriteBufferDocuments>>
vars == <<readBufferSize, writeBufferSize, maxWriteBufferDocuments, fd, readBuffer,
          readBufferPos, writeBuffer, writeBufferCursor, writeBufferDocuments,
          flushCallbacks, size, file, ticks, draining, docs, calls, diskWrites,
          bufDocs, truncated, closed, steps, store, prepared, committed, eventStream,
          index, reader>>
\* The variables of one partition and of the event store.
partitionVars == <<readBufferSize, writeBufferSize, maxWriteBufferDocuments, fd, readBuffer,
                   readBufferPos, writeBuffer, writeBufferCursor, writeBufferDocuments,
                   flushCallbacks, size, file, ticks, draining, docs, calls, diskWrites,
                   bufDocs, truncated, closed, steps>>
storeVars == <<store, prepared, committed>>
\* The variables of the event stream, of the index and of the read-only storage.
streamVars == <<eventStream>>
indexVars == <<index>>
readerVars == <<reader>>

headerSize == Len(HEADER_MAGIC) + 1

\* The partition object, its file and the scheduler as one record, so that
\* the methods can be composed the way the code calls them.
World ==
    [fd |-> fd, readBuffer |-> readBuffer, readBufferPos |-> readBufferPos,
     writeBuffer |-> writeBuffer, writeBufferCursor |-> writeBufferCursor,
     writeBufferDocuments |-> writeBufferDocuments, flushCallbacks |-> flushCallbacks,
     size |-> size, file |-> file, ticks |-> ticks, docs |-> docs, calls |-> calls,
     diskWrites |-> diskWrites, bufDocs |-> bufDocs,
     readBufferSize |-> readBufferSize, writeBufferSize |-> writeBufferSize,
     maxWriteBufferDocuments |-> maxWriteBufferDocuments]

Becomes(w) ==
    /\ fd' = w.fd
    /\ readBuffer' = w.readBuffer
    /\ readBufferPos' = w.readBufferPos
    /\ writeBuffer' = w.writeBuffer
    /\ writeBufferCursor' = w.writeBufferCursor
    /\ writeBufferDocuments' = w.writeBufferDocuments
    /\ flushCallbacks' = w.flushCallbacks
    /\ size' = w.size
    /\ file' = w.file
    /\ ticks' = w.ticks
    /\ docs' = w.docs
    /\ calls' = w.calls
    /\ diskWrites' = w.diskWrites
    /\ bufDocs' = w.bufDocs
    /\ UNCHANGED config
    /\ UNCHANGED storeVars
    /\ UNCHANGED <<streamVars, indexVars, readerVars>>

FlushTask == [task |-> "flush", id |-> 0]
CallbackTask(id) == [task |-> "callback", id |-> id]

\* fs.writeSync(fd, bytes) on a file opened with 'a+': appends.
writeSync(w, bytes, ids) ==
    [w EXCEPT !.file = @ \o bytes,
              !.diskWrites = @ + 1,
              !.docs = [i \in 1..Len(@) |->
                          IF i \in ids THEN [@[i] EXCEPT !.io = w.diskWrites + 1] ELSE @[i]]]

\* Buffer.write(str, offset, length, 'ascii'): stores at most length bytes and
\* at most what fits behind offset; returns the buffer and the bytes written.
bufferWrite(buffer, str, offset, length) ==
    LET bytes == asciiEncode(str)
        n == Max(0, Min(Min(Len(bytes), length), Len(buffer) - offset))
    IN [buffer |-> [i \in 1..Len(buffer) |->
                      IF i > offset /\ i <= offset + n THEN bytes[i - offset] ELSE buffer[i]],
        written |-> n]

RECURSIVE flush(_), forEachCallback(_, _, _), invoke(_, _), write(_, _, _)

\* A callback given to write is called.  The history notes whether its document
\* was in the write buffer, had been handed to fs.writeSync, and whether the
\* write call had returned, and what the callback can see of the partition:
\* its size, the length of the body on disk and the bytes in the write buffer.
invoke(w, id) ==
    LET first == \A i \in 1..Len(w.calls) : w.calls[i].id # id
        w1 == [w EXCEPT !.calls = Append(@, [id |-> id,
                                             buffered |-> id \in Range(w.bufDocs),
                                             written |-> w.docs[id].io > 0,
                                             returned |-> w.docs[id].pos # Pending,
                                             size |-> w.size,
                                             onDisk |-> Len(w.file) - headerSize,
                                             inBuffer |-> w.writeBufferCursor])]
    IN IF w.docs[id].callback = "write" /\ first
       THEN write(w1, NestedData, "inner")
       ELSE w1

\* callbacks.forEach(callback => callback()), from the i-th element on: the
\* elements are those the array had when forEach was called.
forEachCallback(w, callbacks, i) ==
    IF i > Len(callbacks) THEN w
    ELSE forEachCallback(invoke(w, callbacks[i]), callbacks, i + 1)

\* Mutant of flush: the callbacks run before the buffer is written.
flush_callbacksFirst(w) ==
    IF ~w.fd THEN w
    ELSE IF w.writeBufferCursor = 0 THEN w
    ELSE LET w1 == forEachCallback(w, w.flushCallbacks, 1)
             w2 == writeSync(w1, SubSeq(w1.writeBuffer, 1, w1.writeBufferCursor),
                             Range(w1.bufDocs))
         IN [w2 EXCEPT !.writeBufferCursor = 0, !.writeBufferDocuments = 0,
                       !.bufDocs = <<>>, !.flushCallbacks = <<>>]

flush(w) ==
    IF ~w.fd THEN w
    ELSE IF w.writeBufferCursor = 0 THEN w
    ELSE LET w1 == writeSync(w, SubSeq(w.writeBuffer, 1, w.writeBufferCursor), Range(w.bufDocs))
             w2 == [w1 EXCEPT !.writeBufferCursor = 0, !.writeBufferDocuments = 0,
                              !.bufDocs = <<>>]
             w3 == forEachCallback(w2, w2.flushCallbacks, 1)
         IN [w3 EXCEPT !.flushCallbacks = <<>>]

\* Mutant of overflows: flushes already when the document fills the buffer exactly.
overflows_whenFull(w, dataSize) ==
    w.writeBufferCursor > 0 /\ dataSize + w.writeBufferCursor >= Len(w.writeBuffer)

\* The document does not fit behind what the write buffer holds.
overflows(w, dataSize) ==
    w.writeBufferCursor > 0 /\ dataSize + w.writeBufferCursor > Len(w.writeBuffer)

\* Mutant of scheduleFlush: the flush is scheduled for the first document of the
\* partition only.
scheduleFlush_firstDocumentOnly(w) ==
    IF w.writeBufferCursor = 0 /\ w.size = 0
    THEN [w EXCEPT !.ticks = Append(@, FlushTask)] ELSE w

\* if (this.writeBufferCursor === 0) process.nextTick(() => this.flush())
scheduleFlush(w) ==
    IF w.writeBufferCursor = 0 THEN [w EXCEPT !.ticks = Append(@, FlushTask)] ELSE w

\* The branch of write for a document larger than the write buffer.
writeUnbuffered(w, id, dataToWrite, callback) ==
    LET u == writeSync(w, utf8Encode(dataToWrite), {id})
    IN IF callback # "none" THEN [u EXCEPT !.ticks = Append(@, CallbackTask(id))] ELSE u

\* Mutant of writeBuffered: the buffer is flushed when it holds more documents
\* than maxWriteBufferDocuments.
writeBuffered_flushWhenExceeded(w, id, dataToWrite, dataSize, callback) ==
    LET bw == bufferWrite(w.writeBuffer, dataToWrite, w.writeBufferCursor, dataSize)
        b1 == [w EXCEPT !.writeBuffer = bw.buffer,
                        !.writeBufferCursor = @ + bw.written,
                        !.writeBufferDocuments = @ + 1,
                        !.bufDocs = Append(@, id)]
        b2 == IF callback # "none"
              THEN [b1 EXCEPT !.flushCallbacks = Append(@, id)] ELSE b1
    IN IF b2.maxWriteBufferDocuments > 0
          /\ b2.writeBufferDocuments > b2.maxWriteBufferDocuments
       THEN flush(b2) ELSE b2

\* The branch of write that copies the document into the write buffer.
writeBuffered(w, id, dataToWrite, dataSize, callback) ==
    LET bw == bufferWrite(w.writeBuffer, dataToWrite, w.writeBufferCursor, dataSize)
        b1 == [w EXCEPT !.writeBuffer = bw.buffer,
                        !.writeBufferCursor = @ + bw.written,
                        !.writeBufferDocuments = @ + 1,
                        !.bufDocs = Append(@, id)]
        b2 == IF callback # "none"
              THEN [b1 EXCEPT !.flushCallbacks = Append(@, id)] ELSE b1
    IN IF b2.maxWriteBufferDocuments > 0
          /\ b2.writeBufferDocuments >= b2.maxWriteBufferDocuments
       THEN flush(b2) ELSE b2

\* Mutant of write: a closed partition is not turned away.
write_unguarded(w, data, callback) ==
    LET id == Len(w.docs) + 1
        w0 == [w EXCEPT !.docs = Append(@, [data |-> data, callback |-> callback,
                                            pos |-> Pending, io |-> 0])]
        dataSize == byteLength(data) + 11
        dataToWrite == pad(toString(byteLength(data)), 10) \o data \o <<10>>
        w1 == IF overflows(w0, dataSize) THEN flush(w0) ELSE w0
        w2 == scheduleFlush(w1)
        w3 == IF dataSize > Len(w2.writeBuffer)
              THEN writeUnbuffered(w2, id, dataToWrite, callback)
              ELSE writeBuffered(w2, id, dataToWrite, dataSize, callback)
    IN [w3 EXCEPT !.docs[id].pos = w3.size, !.size = w3.size + dataSize]

\* write(data, callback): the position is docs[id].pos of the new document;
\* on a closed partition nothing happens (the call returns false).
write(w, data, callback) ==
    IF ~w.fd THEN w
    ELSE
    LET id == Len(w.docs) + 1
        w0 == [w EXCEPT !.docs = Append(@, [data |-> data, callback |-> callback,
                                            pos |-> Pending, io |-> 0])]
        dataSize == byteLength(data) + 11
        dataToWrite == pad(toString(byteLength(data)), 10) \o data \o <<10>>
        w1 == IF overflows(w0, dataSize) THEN flush(w0) ELSE w0
        w2 == scheduleFlush(w1)
        w3 == IF dataSize > Len(w2.writeBuffer)
              THEN writeUnbuffered(w2, id, dataToWrite, callback)
              ELSE writeBuffered(w2, id, dataToWrite, dataSize, callback)
    IN [w3 EXCEPT !.docs[id].pos = w3.size, !.size = w3.size + dataSize]

\* What write(data, callback) gives its caller: false on a partition that is
\* not open, else the position; no path of write throws.
writeResult(w, data, callback) ==
    IF ~w.fd THEN [kind |-> "false", position |-> Undefined]
    ELSE [kind |-> "position",
          position |-> write(w, data, callback).docs[Len(w.docs) + 1].pos]

\* Buffer.allocUnsafe(n) / Buffer.allocUnsafeSlow(n)
allocUnsafe(n) == [i \in 1..n |-> Uninit]

close(w) ==
    LET w1 == IF w.fd THEN [flush(w) EXCEPT !.fd = FALSE] ELSE w
    IN [w1 EXCEPT !.readBuffer = <<>>, !.readBufferPos = -1,
                  !.writeBuffer = <<>>, !.writeBufferCursor = 0,
                  !.writeBufferDocuments = 0, !.bufDocs = <<>>]

\* String.prototype.substr(start, length) for start >= 0: a length that is not
\* positive gives the empty string.
substr(str, start, length) ==
    IF length <= 0 THEN <<>> ELSE SubSeq(str, start + 1, Min(Len(str), start + length))

\* open() returns the new state, whether it threw and the error thrown: "none",
\* "Invalid file version" or "Invalid file header".
open(w) ==
    IF w.fd THEN [w |-> w, threw |-> FALSE, error |-> "none"]
    ELSE LET w1 == [w EXCEPT !.fd = TRUE,
                             !.readBuffer = allocUnsafe(10 + w.readBufferSize),
                             !.readBufferPos = -1,
                             !.writeBuffer = allocUnsafe(w.writeBufferSize),
                             !.writeBufferCursor = 0,
                             !.writeBufferDocuments = 0,
                             !.flushCallbacks = <<>>,
                             !.bufDocs = <<>>]
             headerBuffer == SubSeq(w1.file, 1, Len(HEADER_MAGIC))
         IN IF Len(w1.file) = 0
            THEN [w |-> [w1 EXCEPT !.file = HEADER_MAGIC \o <<10>>, !.size = 0],
                  threw |-> FALSE, error |-> "none"]
            ELSE IF utf8Decode(headerBuffer) # HEADER_MAGIC
            THEN [w |-> close(w1), threw |-> TRUE,
                  error |-> IF substr(utf8Decode(headerBuffer), 0, -2)
                                = substr(HEADER_MAGIC, 0, -2)
                            THEN "Invalid file version" ELSE "Invalid file header"]
            ELSE [w |-> [w1 EXCEPT !.size = Len(w1.file) - headerSize],
                  threw |-> FALSE, error |-> "none"]

\* fs.readSync into the read buffer: the bytes the file has from headerSize + from
\* on replace the head of the buffer, the rest of the buffer keeps its content.
fillBuffer(w, from) ==
    IF ~w.fd THEN w
    ELSE LET start == headerSize + from
             n == Max(0, Min(Len(w.readBuffer), Len(w.file) - start))
         IN [w EXCEPT !.readBuffer = [i \in 1..Len(@) |->
                                        IF i <= n THEN w.file[start + i] ELSE @[i]],
                      !.readBufferPos = from]

\* readFrom(position, size): expected = 0 stands for an omitted size; g is the
\* value uninitialised bytes are read as.  kind is "false", "data" or the error.
readFrom(w, position, expected, g) ==
    IF ~w.fd THEN [w |-> w, kind |-> "false", data |-> <<>>]
    ELSE IF position + 10 >= w.size THEN [w |-> w, kind |-> "false", data |-> <<>>]
    ELSE
    LET inWriteBuffer == w.writeBufferCursor > 0
                          /\ position >= w.size - w.writeBufferCursor
        bufferPos == IF inWriteBuffer THEN w.size - w.writeBufferCursor ELSE w.readBufferPos
        byteLen == IF inWriteBuffer THEN Len(w.writeBuffer) ELSE Len(w.readBuffer)
        refill == bufferPos < 0 \/ position - bufferPos < 0
                  \/ position - bufferPos + 10 > byteLen
        w1 == IF refill THEN fillBuffer(w, position) ELSE w
        bufferCursor == IF refill THEN 0 ELSE position - bufferPos
        buffer == IF inWriteBuffer THEN w1.writeBuffer ELSE w1.readBuffer
        dataPosition == bufferCursor + 10
        dataLengthStr == bufferToString(buffer, bufferCursor, dataPosition, g)
        dataLength == parseInt(dataLengthStr)
    IN IF ~lengthPattern(dataLengthStr) \/ dataLength = 0
       THEN [w |-> w1, kind |-> "Error", data |-> <<>>]
       ELSE IF expected # 0 /\ dataLength # expected
       THEN [w |-> w1, kind |-> "InvalidDataSizeError", data |-> <<>>]
       ELSE IF position + dataLength + 11 > w1.size
       THEN [w |-> w1, kind |-> "CorruptFileError", data |-> <<>>]
       ELSE IF dataLength + 10 > byteLen
       THEN LET start == headerSize + position + 10
                n == Max(0, Min(dataLength, Len(w1.file) - start))
                tempReadBuffer == [i \in 1..dataLength |->
                                     IF i <= n THEN w1.file[start + i] ELSE Uninit]
            IN [w |-> w1, kind |-> "data",
                data |-> bufferToString(tempReadBuffer, 0, dataLength, g)]
       ELSE IF bufferCursor > 0 /\ dataPosition + dataLength > byteLen
       THEN LET w2 == fillBuffer(w1, position)
                buffer2 == IF inWriteBuffer THEN w2.writeBuffer ELSE w2.readBuffer
            IN [w |-> w2, kind |-> "data",
                data |-> bufferToString(buffer2, 10, 10 + dataLength, g)]
       ELSE [w |-> w1, kind |-> "data",
             data |-> bufferToString(buffer, dataPosition, dataPosition + dataLength, g)]

RECURSIVE readAllFrom(_, _, _, _)
\* The loop of readAll from a position on; items are the documents yielded.
readAllFrom(w, position, g, items) ==
    LET r == readFrom(w, position, 0, g)
    IN IF r.kind = "data"
       THEN readAllFrom(r.w, position + byteLength(r.data) + 11, g, Append(items, r.data))
       ELSE [w |-> r.w, kind |-> (IF r.kind = "false" THEN "end" ELSE r.kind),
             items |-> items]

readAll(w, g) == readAllFrom(w, 0, g, <<>>)

\* Mutant of truncate: a negative argument is not raised to 0.
truncate_unclamped(w, after) ==
    IF w.size = Undefined THEN w
    ELSE IF after > w.size THEN w
    ELSE LET w1 == flush(w)
             newLen == headerSize + after
         IN [w1 EXCEPT !.file = IF newLen <= Len(@) THEN SubSeq(@, 1, newLen)
                                 ELSE @ \o [i \in 1..(newLen - Len(@)) |-> 0],
                       !.size = after]

\* Mutant of truncate: an argument above the size is not ignored.
truncate_unguarded(w, after) ==
    IF w.size = Undefined THEN w
    ELSE LET a == Max(after, 0)
             w1 == flush(w)
             newLen == headerSize + a
         IN [w1 EXCEPT !.file = IF newLen <= Len(@) THEN SubSeq(@, 1, newLen)
                                 ELSE @ \o [i \in 1..(newLen - Len(@)) |-> 0],
                       !.size = a]

\* truncate(after).  Before the first open size and headerSize are undefined
\* and fs.truncateSync throws.  Past the end of the file truncateSync extends
\* the file with zero bytes.
truncate(w, after) ==
    IF w.size = Undefined THEN w
    ELSE IF after > w.size THEN w
    ELSE LET a == Max(after, 0)
             w1 == flush(w)
             newLen == headerSize + a
         IN [w1 EXCEPT !.file = IF newLen <= Len(@) THEN SubSeq(@, 1, newLen)
                                 ELSE @ \o [i \in 1..(newLen - Len(@)) |-> 0],
                       !.size = a]

\* ------------------------------------------------------------- behaviour
\* No event store is involved: the partition is used on its own.
NoStore ==
    /\ store = [primary |-> <<>>, indexes |-> <<>>, partitions |-> <<>>]
    /\ prepared = [c \in Clients |-> [state |-> "idle", stream |-> "", version |-> 0]]
    /\ committed = <<>>

\* No event stream has been obtained.
NoStream ==
    eventStream = [kind |-> "none", names |-> {}, version |-> 0, minRevision |-> 1,
                   maxRevision |-> -1, cursor |-> 0, events |-> <<>>, cached |-> FALSE,
                   yielded |-> <<>>, born |-> 0]

\* No index is involved.
NoIndex == index = [fd |-> FALSE]

\* No read-only storage is involved.
NoReader == reader = [watcher |-> FALSE]

Init ==
    /\ \E c \in Configs : /\ readBufferSize = c.readBufferSize
                          /\ writeBufferSize = c.writeBufferSize
                          /\ maxWriteBufferDocuments = c.maxWriteBufferDocuments
    /\ fd = FALSE
    /\ readBuffer = <<>>
    /\ readBufferPos = -1
    /\ writeBuffer = <<>>
    /\ writeBufferCursor = 0
    /\ writeBufferDocuments = 0
    /\ flushCallbacks = <<>>
    /\ size = Undefined
    /\ file = <<>>
    /\ ticks = <<>>
    /\ draining = FALSE
    /\ docs = <<>>
    /\ calls = <<>>
    /\ diskWrites = 0
    /\ bufDocs = <<>>
    /\ truncated = FALSE
    /\ closed = FALSE
    /\ steps = 0
    /\ NoStore
    /\ NoStream
    /\ NoIndex
    /\ NoReader

\* Callbacks of kind "write" that have not been invoked yet: each will write
\* one more document.
Unfired(w) == { i \in 1..Len(w.docs) : /\ w.docs[i].callback = "write"
                                        /\ \A j \in 1..Len(w.calls) : w.calls[j].id # i }

\* A caller may act: the nextTick queue is not being drained.
Caller ==
    /\ ~draining
    /\ steps < MaxSteps
    /\ steps' = steps + 1

Open ==
    /\ Caller
    /\ Becomes(open(World).w)
    /\ UNCHANGED <<draining, truncated, closed>>

Close ==
    /\ Caller
    /\ Becomes(close(World))
    /\ closed' = (closed \/ fd)
    /\ UNCHANGED <<draining, truncated>>

Write ==
    /\ Caller
    /\ \E data \in Payloads, callback \in CallbackKinds :
          /\ Len(docs) + Cardinality(Unfired(World)) + 1
                + (IF callback = "write" THEN 1 ELSE 0) <= MaxDocs
          /\ Becomes(write(World, data, callback))
    /\ UNCHANGED <<draining, truncated, closed>>

Flush ==
    /\ Caller
    /\ Becomes(flush(World))
    /\ UNCHANGED <<draining, truncated, closed>>

\* The positions callers read at: the start and where write said documents are.
Positions == {0} \cup { docs[i].pos : i \in 1..Len(docs) }

ReadFrom ==
    /\ Caller
    /\ \E position \in Positions, g \in GarbageBytes :
          Becomes(readFrom(World, position, 0, g).w)
    /\ UNCHANGED <<draining, truncated, closed>>

ReadAll ==
    /\ Caller
    /\ \E g \in GarbageBytes : Becomes(readAll(World, g).w)
    /\ UNCHANGED <<draining, truncated, closed>>

Truncate ==
    /\ Caller
    /\ \E after \in TruncatePoints \cup {size} :
          /\ Becomes(truncate(World, after))
          /\ truncated' = (truncated \/ (size # Undefined /\ after <= size))
    /\ UNCHANGED <<draining, closed>>

\* The scheduler runs the head of the nextTick queue.
RunTick ==
    /\ ticks # <<>>
    /\ LET t == Head(ticks)
           w0 == [World EXCEPT !.ticks = Tail(ticks)]
           w == IF t.task = "flush" THEN flush(w0) ELSE invoke(w0, t.id)
       IN /\ Becomes(w)
          /\ draining' = (w.ticks # <<>>)
    /\ UNCHANGED <<truncated, closed, steps>>

Next ==
    \/ Open
    \/ Close
    \/ Write
    \/ Flush
    \/ ReadFrom
    \/ ReadAll
    \/ Truncate
    \/ RunTick

Spec == Init /\ [][Next]_vars

\* The partition configured with a document threshold.
InitThreshold ==
    /\ \E c \in ThresholdConfigs : /\ readBufferSize = c.readBufferSize
                                   /\ writeBufferSize = c.writeBufferSize
                                   /\ maxWriteBufferDocuments = c.maxWriteBufferDocuments
    /\ fd = FALSE
    /\ readBuffer = <<>>
    /\ readBufferPos = -1
    /\ writeBuffer = <<>>
    /\ writeBufferCursor = 0
    /\ writeBufferDocuments = 0
    /\ flushCallbacks = <<>>
    /\ size = Undefined
    /\ file = <<>>
    /\ ticks = <<>>
    /\ draining = FALSE
    /\ docs = <<>>
    /\ calls = <<>>
    /\ diskWrites = 0
    /\ bufDocs = <<>>
    /\ truncated = FALSE
    /\ closed = FALSE
    /\ steps = 0
    /\ NoStore
    /\ NoStream
    /\ NoIndex
    /\ NoReader

SpecThreshold == InitThreshold /\ [][Next]_vars

\* The partition constructed over no file or over a foreign file.
InitFiles ==
    /\ \E c \in Configs : /\ readBufferSize = c.readBufferSize
                          /\ writeBufferSize = c.writeBufferSize
                          /\ maxWriteBufferDocuments = c.maxWriteBufferDocuments
    /\ fd = FALSE
    /\ readBuffer = <<>>
    /\ readBufferPos = -1
    /\ writeBuffer = <<>>
    /\ writeBufferCursor = 0
    /\ writeBufferDocuments = 0
    /\ flushCallbacks = <<>>
    /\ size = Undefined
    /\ file \in {<<>>} \cup ForeignFiles
    /\ ticks = <<>>
    /\ draining = FALSE
    /\ docs = <<>>
    /\ calls = <<>>
    /\ diskWrites = 0
    /\ bufDocs = <<>>
    /\ truncated = FALSE
    /\ closed = FALSE
    /\ steps = 0
    /\ NoStore
    /\ NoStream
    /\ NoIndex
    /\ NoReader

SpecFiles == InitFiles /\ [][Next]_vars

\* ------------------------------------------------------------- event store
\* The event store on top of the partitions: store.partitions maps a write
\* stream to the documents of its partition, store.primary is the primary
\* index and store.indexes maps a stream to its secondary index.  An index
\* entry names the partition and the position of its document; positions count
\* documents here, not bytes.

\* ExpectedVersion.Any
ExpectedVersionAny == -1

\* A function extended by one key.
withKey(f, key, value) ==
    [x \in (DOMAIN f) \cup {key} |-> IF x = key THEN value ELSE f[x]]

\* Step 1 of commit: the partition of the write stream and the index of the
\* stream are created when the stream is new.
ensureStream(st, stream) ==
    IF stream \in DOMAIN st.partitions THEN st
    ELSE [st EXCEPT !.partitions = withKey(@, stream, <<>>),
                    !.indexes = withKey(@, stream, <<>>)]

\* The number of primary index entries that refer to the partition of the stream.
getStreamVersion(st, stream) ==
    Cardinality({ n \in 1..Len(st.primary) : st.primary[n].partition = stream })

\* Mutant of currentVersion: the length of the primary index.
currentVersion_ofAllStreams(st, stream) == Len(st.primary)

\* Step 2 of commit: the version the expected version is compared with.
currentVersion(st, stream) == getStreamVersion(st, stream)

RECURSIVE writeEvents(_, _, _, _, _, _)
\* Step 4 of commit, from the k-th event on: the document is written to the
\* partition, and an entry with the next sequence number goes to the primary
\* index and to every secondary index whose matcher accepts the document.
writeEvents(st, stream, events, k, version, commitId) ==
    IF k > Len(events) THEN st
    ELSE LET document == [stream |-> stream, payload |-> events[k],
                          metadata |-> [commitId |-> commitId,
                                        commitVersion |-> k - 1,
                                        commitSize |-> Len(events),
                                        streamVersion |-> version + (k - 1) + 1]]
             entry == [number |-> Len(st.primary) + 1,
                       position |-> Len(st.partitions[stream]),
                       partition |-> stream]
             st1 == [st EXCEPT !.partitions[stream] = Append(@, document),
                               !.primary = Append(@, entry),
                               !.indexes = [x \in DOMAIN @ |->
                                              IF x = document.stream
                                              THEN Append(@[x], entry) ELSE @[x]]]
         IN writeEvents(st1, stream, events, k + 1, version, commitId)

\* commit(writeStream, events, expectedVersion): the new store and whether
\* OptimisticConcurrencyError was thrown.
commit(st, stream, events, expectedVersion) ==
    LET st1 == ensureStream(st, stream)
        version == currentVersion(st1, stream)
    IN IF expectedVersion # ExpectedVersionAny /\ expectedVersion # version
       THEN [store |-> st1, threw |-> TRUE]
       ELSE [store |-> writeEvents(st1, stream, events, 1, version, Len(st1.primary) + 1),
             threw |-> FALSE]

\* Mutant of mergeIndexes: the streams are read one after the other.
RECURSIVE mergeIndexes_streamByStream(_, _, _)
mergeIndexes_streamByStream(st, cursors, out) ==
    LET live == { n \in DOMAIN cursors : cursors[n] <= Len(st.indexes[n]) }
    IN IF live = {} THEN out
       ELSE LET n == CHOOSE n \in live : TRUE
                e == st.indexes[n][cursors[n]]
            IN mergeIndexes_streamByStream(st, [cursors EXCEPT ![n] = @ + 1],
                   Append(out, st.partitions[e.partition][e.position + 1].payload))

RECURSIVE mergeIndexes(_, _, _)
\* The k-way merge of JoinEventStream: of the next entries of the stream
\* indexes the one with the lowest number is taken and its document read.
mergeIndexes(st, cursors, out) ==
    LET live == { n \in DOMAIN cursors : cursors[n] <= Len(st.indexes[n]) }
    IN IF live = {} THEN out
       ELSE LET n == CHOOSE n \in live :
                        \A m \in live : st.indexes[n][cursors[n]].number
                                           <= st.indexes[m][cursors[m]].number
                e == st.indexes[n][cursors[n]]
            IN mergeIndexes(st, [cursors EXCEPT ![n] = @ + 1],
                   Append(out, st.partitions[e.partition][e.position + 1].payload))

\* new JoinEventStream(name, streams, eventstore).events: streams that do not
\* exist have no index and are left out.
joinEvents(st, streams) ==
    mergeIndexes(st, [n \in streams \cap DOMAIN st.indexes |-> 1], <<>>)

\* The events of a commit of n events: numbered on from the events committed so far.
newEvents(n) == [k \in 1..n |-> Len(committed) + k]

\* The history entries of a successful commit.
committedEntries(stream, events, expectedVersion) ==
    [k \in 1..Len(events) |->
        [stream |-> stream, payload |-> events[k], commit |-> events[1],
         expectedVersion |-> expectedVersion, k |-> k]]

InitStore ==
    /\ \E c \in Configs : /\ readBufferSize = c.readBufferSize
                          /\ writeBufferSize = c.writeBufferSize
                          /\ maxWriteBufferDocuments = c.maxWriteBufferDocuments
                          /\ c.readBufferSize = 12 /\ c.maxWriteBufferDocuments = 0
    /\ fd = FALSE
    /\ readBuffer = <<>>
    /\ readBufferPos = -1
    /\ writeBuffer = <<>>
    /\ writeBufferCursor = 0
    /\ writeBufferDocuments = 0
    /\ flushCallbacks = <<>>
    /\ size = Undefined
    /\ file = <<>>
    /\ ticks = <<>>
    /\ draining = FALSE
    /\ docs = <<>>
    /\ calls = <<>>
    /\ diskWrites = 0
    /\ bufDocs = <<>>
    /\ truncated = FALSE
    /\ closed = FALSE
    /\ steps = 0
    /\ NoStore
    /\ NoStream
    /\ NoIndex
    /\ NoReader

\* A client reads the version of a stream to commit against it later (each
\* client does so once; further commits are those of Commit).
GetStreamVersion ==
    /\ \E c \in Clients, stream \in Streams :
          /\ prepared[c].state = "idle"
          /\ prepared' = [prepared EXCEPT ![c] = [state |-> "prepared", stream |-> stream,
                                                  version |-> getStreamVersion(store, stream)]]
    /\ UNCHANGED <<store, committed>>
    /\ UNCHANGED partitionVars
    /\ UNCHANGED <<streamVars, indexVars, readerVars>>

\* A client commits with the version it read as expected version.
CommitPrepared ==
    /\ \E c \in Clients, n \in CommitSizes :
          /\ prepared[c].state = "prepared"
          /\ Len(committed) + n <= MaxEvents
          /\ LET r == commit(store, prepared[c].stream, newEvents(n), prepared[c].version)
             IN /\ store' = r.store
                /\ prepared' = [prepared EXCEPT ![c].state =
                                   IF r.threw THEN "failed" ELSE "succeeded"]
                /\ committed' = IF r.threw THEN committed
                                ELSE committed \o committedEntries(prepared[c].stream,
                                                     newEvents(n), prepared[c].version)
    /\ UNCHANGED partitionVars
    /\ UNCHANGED <<streamVars, indexVars, readerVars>>

\* A caller commits with ExpectedVersion.Any or with a version of its choice.
Commit ==
    /\ \E stream \in Streams, n \in CommitSizes,
          expectedVersion \in {ExpectedVersionAny} \cup 0..MaxEvents :
          /\ Len(committed) + n <= MaxEvents
          /\ LET r == commit(store, stream, newEvents(n), expectedVersion)
             IN /\ store' = r.store
                /\ committed' = IF r.threw THEN committed
                                ELSE committed \o committedEntries(stream, newEvents(n),
                                                                   expectedVersion)
    /\ UNCHANGED prepared
    /\ UNCHANGED partitionVars
    /\ UNCHANGED <<streamVars, indexVars, readerVars>>

NextStore ==
    \/ GetStreamVersion
    \/ CommitPrepared
    \/ Commit

SpecStore == InitStore /\ [][NextStore]_vars

\* ------------------------------------------------------------- index
\* An index: index.file holds the entries that are on disk, index.writeBuffer
\* the entries that were added and not flushed yet, index.length counts both.
\* An entry is a record with the number (the key of the document) and the
\* position of its document.

\* What get and range return for "false".
NoEntry == [number |-> -1, position |-> -1]

\* An open index over entries that are all on disk.
flushedIndex(entries) ==
    [fd |-> TRUE, file |-> entries, writeBuffer |-> <<>>, length |-> Len(entries)]

\* get(n): 1-based; the on-disk region combined with the unflushed tail.
get(idx, n) ==
    IF ~idx.fd \/ n <= 0 \/ n > idx.length THEN NoEntry
    ELSE IF n <= Len(idx.file) THEN idx.file[n]
    ELSE idx.writeBuffer[n - Len(idx.file)]

\* Mutant of searchEntry: an entry whose number equals the key is passed over.
RECURSIVE searchEntry_belowKey(_, _, _, _)
searchEntry_belowKey(idx, key, low, high) ==
    IF high - low <= 1 THEN low
    ELSE LET mid == (low + high) \div 2
         IN IF get(idx, mid).number < key
            THEN searchEntry_belowKey(idx, key, mid, high)
            ELSE searchEntry_belowKey(idx, key, low, mid)

RECURSIVE searchEntry(_, _, _, _)
\* The binary search of find: entry low is at or below the key, entry high
\* is above it.
searchEntry(idx, key, low, high) ==
    IF high - low <= 1 THEN low
    ELSE LET mid == (low + high) \div 2
         IN IF get(idx, mid).number <= key
            THEN searchEntry(idx, key, mid, high)
            ELSE searchEntry(idx, key, low, mid)

\* find(key)
find(idx, key) ==
    IF idx.length = 0 THEN 0
    ELSE IF key < get(idx, 1).number THEN 0
    ELSE IF key >= get(idx, idx.length).number THEN idx.length
    ELSE searchEntry(idx, key, 1, idx.length)

\* The gaps between the numbers of consecutive entries.
NumberGaps == {1, 2}

\* The arguments of range: positions from both ends and beyond them.
RangeArgs == -(MaxEvents + 1)..(MaxEvents + 1)

\* The arguments of truncate.
TruncateArgs == 0..(MaxEvents + 1)

\* range(from) without the second argument.
Omitted == MaxEvents + 100

\* A negative bound of range counts from the end of the index.
wrap(position, length) == IF position < 0 THEN position + length ELSE position

\* flush(): the append buffer goes to the file and append(prevLength,
\* newLength) is emitted.
flushIndex(idx) ==
    IF ~idx.fd \/ idx.writeBuffer = <<>> THEN idx
    ELSE [idx EXCEPT !.file = @ \o idx.writeBuffer, !.writeBuffer = <<>>,
                     !.emitted = [event |-> "append", prevLength |-> Len(idx.file),
                                  newLength |-> idx.length]]

\* add(entry): the entry goes to the append buffer, a flush is scheduled and
\* the new entry number is returned (it is the new length).
add(idx, entry) ==
    [idx EXCEPT !.writeBuffer = Append(@, entry), !.length = @ + 1,
                !.flushPending = TRUE]

\* open(): the length is derived from the size of the file.
openIndex(idx) ==
    IF idx.fd THEN idx
    ELSE [idx EXCEPT !.fd = TRUE, !.writeBuffer = <<>>, !.length = Len(idx.file)]

\* close(): flushes, then closes the file.
closeIndex(idx) ==
    IF ~idx.fd THEN idx
    ELSE [flushIndex(idx) EXCEPT !.fd = FALSE, !.writeBuffer = <<>>]

\* Mutant of range: the upper bound is taken as exclusive.
range_untilExclusive(idx, from, until) ==
    LET f == wrap(from, idx.length)
        u == IF until = Omitted THEN idx.length ELSE wrap(until, idx.length)
    IN IF ~idx.fd \/ f < 1 \/ u > idx.length \/ f > u
       THEN [ok |-> FALSE, entries |-> <<>>]
       ELSE [ok |-> TRUE, entries |-> [i \in 1..(u - f) |-> get(idx, f + i - 1)]]

\* range(from, until): false or the entries from..until.
range(idx, from, until) ==
    LET f == wrap(from, idx.length)
        u == IF until = Omitted THEN idx.length ELSE wrap(until, idx.length)
    IN IF ~idx.fd \/ f < 1 \/ u > idx.length \/ f > u
       THEN [ok |-> FALSE, entries |-> <<>>]
       ELSE [ok |-> TRUE, entries |-> [i \in 1..(u - f + 1) |-> get(idx, f + i - 1)]]

\* Mutant of truncateIndex: the append buffer is not flushed first.
truncateIndex_withoutFlush(idx, after) ==
    IF ~idx.fd \/ after >= idx.length THEN idx
    ELSE [idx EXCEPT !.file = SubSeq(@, 1, Min(after, Len(@))), !.length = after,
                     !.emitted = [event |-> "truncate", prevLength |-> idx.length,
                                  newLength |-> after]]

\* truncate(after): flushes, cuts the file after the entry "after", sets the
\* length and emits truncate(prevLength, newLength).
truncateIndex(idx, after) ==
    IF ~idx.fd \/ after >= idx.length THEN idx
    ELSE [flushIndex(idx) EXCEPT !.file = SubSeq(idx.file \o idx.writeBuffer, 1, after),
                                 !.length = after,
                                 !.emitted = [event |-> "truncate",
                                              prevLength |-> idx.length,
                                              newLength |-> after]]

Silent == [event |-> "none", prevLength |-> 0, newLength |-> 0]

InitIndex ==
    /\ \E c \in Configs : /\ readBufferSize = c.readBufferSize
                          /\ writeBufferSize = c.writeBufferSize
                          /\ maxWriteBufferDocuments = c.maxWriteBufferDocuments
                          /\ c.readBufferSize = 12 /\ c.maxWriteBufferDocuments = 0
    /\ fd = FALSE
    /\ readBuffer = <<>>
    /\ readBufferPos = -1
    /\ writeBuffer = <<>>
    /\ writeBufferCursor = 0
    /\ writeBufferDocuments = 0
    /\ flushCallbacks = <<>>
    /\ size = Undefined
    /\ file = <<>>
    /\ ticks = <<>>
    /\ draining = FALSE
    /\ docs = <<>>
    /\ calls = <<>>
    /\ diskWrites = 0
    /\ bufDocs = <<>>
    /\ truncated = FALSE
    /\ closed = FALSE
    /\ steps = 0
    /\ NoStore
    /\ NoStream
    /\ NoReader
    /\ index = [fd |-> TRUE, file |-> <<>>, writeBuffer |-> <<>>, length |-> 0,
                flushPending |-> FALSE, emitted |-> Silent, entries |-> <<>>]

\* What the index leaves alone.
IndexOnly ==
    /\ UNCHANGED partitionVars
    /\ UNCHANGED storeVars
    /\ UNCHANGED <<streamVars, readerVars>>

\* The number of the last entry that was added and is still in the index.
lastNumber == IF index.entries = <<>> THEN 0 ELSE index.entries[Len(index.entries)].number

\* index.add(new Index.Entry(number, position)) with a number above the last one.
IndexAdd ==
    /\ index.fd
    /\ index.length < MaxEvents
    /\ \E gap \in NumberGaps :
          LET entry == [number |-> lastNumber + gap, position |-> index.length + 1]
          IN index' = [add(index, entry) EXCEPT !.entries = Append(@, entry)]
    /\ IndexOnly

\* The flush that add has scheduled.
IndexTick ==
    /\ index.flushPending
    /\ index' = [flushIndex(index) EXCEPT !.flushPending = FALSE]
    /\ IndexOnly

\* index.close()
IndexClose ==
    /\ index.fd
    /\ index' = closeIndex(index)
    /\ IndexOnly

\* index.open()
IndexOpen ==
    /\ ~index.fd
    /\ index' = openIndex(index)
    /\ IndexOnly

\* index.truncate(after)
IndexTruncate ==
    /\ index.fd
    /\ \E after \in TruncateArgs :
          index' = [truncateIndex(index, after) EXCEPT
                       !.entries = SubSeq(@, 1, Min(after, Len(@)))]
    /\ IndexOnly

NextIndex ==
    \/ IndexAdd
    \/ IndexTick
    \/ IndexClose
    \/ IndexOpen
    \/ IndexTruncate

SpecIndex == InitIndex /\ [][NextIndex]_vars

\* ------------------------------------------------------------- event streams
\* An event stream over one stream of the store (kind "single") or over the
\* join of several (kind "join").  The revisions of a single stream count the
\* entries of its index, those of a join are the numbers of the entries.

\* The stream lists a JoinEventStream is obtained for.
JoinSets == { {"foo", "bar"}, {"foo", MissingStream} }

\* The revision ranges (min, max) a stream is obtained with.
Ranges == { <<1, -1>>, <<-2, -1>> }

\* The range selection calls.
Builders == {"fromStart", "fromEnd", "toStart", "toEnd", "backwards", "forwards"}

Reverse(s) == [i \in 1..Len(s) |-> s[Len(s) + 1 - i]]

\* The index of a stream of the store; a stream that does not exist has none.
streamIndex(st, name) ==
    flushedIndex(IF name \in DOMAIN st.indexes THEN st.indexes[name] ELSE <<>>)

\* The highest revision of the stream at this moment.
streamLength(st, kind, names) ==
    IF kind = "join" THEN Len(st.primary)
    ELSE streamIndex(st, CHOOSE n \in names : TRUE).length

\* new EventStream / new JoinEventStream: the version is read here.
newStream(st, kind, names, minRevision, maxRevision, born) ==
    [kind |-> kind, names |-> names, version |-> streamLength(st, kind, names),
     minRevision |-> minRevision, maxRevision |-> maxRevision, cursor |-> 0,
     events |-> <<>>, cached |-> FALSE, yielded |-> <<>>, born |-> born]

\* Mutant of streamVersion: the version is read when the stream is iterated.
streamVersion_atIteration(st, s) == streamLength(st, s.kind, s.names)

\* The version the bounds of the stream are resolved against.
streamVersion(st, s) == s.version

\* A negative revision counts from the end: -1 is the last revision.
wrapRevision(revision, version) ==
    IF revision < 0 THEN revision + version + 1 ELSE revision

\* The bounds of the iteration: it goes from revision "from" to revision
\* "until", backwards when from > until, and never leaves 1..version.
bounds(st, s) ==
    LET version == streamVersion(st, s)
        from == wrapRevision(s.minRevision, version)
        until == wrapRevision(s.maxRevision, version)
    IN [from |-> Max(1, Min(from, version)), until |-> Max(1, Min(until, version)),
        empty |-> version = 0 \/ (from < 1 /\ until < 1) \/ (from > version /\ until > version)]

\* The range selection calls: they change the bounds that were not resolved yet.
select(st, s, builder) ==
    LET version == streamVersion(st, s)
        isForwards == wrapRevision(s.minRevision, version) <= wrapRevision(s.maxRevision, version)
        swapped == [s EXCEPT !.minRevision = s.maxRevision, !.maxRevision = s.minRevision]
    IN CASE builder = "fromStart" -> [s EXCEPT !.minRevision = 1]
         [] builder = "fromEnd" -> [s EXCEPT !.minRevision = -1]
         [] builder = "toStart" -> [s EXCEPT !.maxRevision = 1]
         [] builder = "toEnd" -> [s EXCEPT !.maxRevision = -1]
         [] builder = "backwards" -> IF isForwards THEN swapped ELSE s
         [] builder = "forwards" -> IF isForwards THEN s ELSE swapped

\* reset(): the iterator starts again at the current bounds.
reset(s) == [s EXCEPT !.cursor = 0, !.events = <<>>, !.cached = FALSE, !.yielded = <<>>]

RECURSIVE mergeForwards(_, _, _, _)
\* The k-way merge in ascending order: of the next entries of the stream
\* indexes the one with the lowest number is taken, up to the number "until".
mergeForwards(st, cursors, until, out) ==
    LET live == { n \in DOMAIN cursors :
                    /\ cursors[n] <= streamIndex(st, n).length
                    /\ get(streamIndex(st, n), cursors[n]).number <= until }
    IN IF live = {} THEN out
       ELSE LET n == CHOOSE n \in live :
                        \A m \in live : get(streamIndex(st, n), cursors[n]).number
                                           <= get(streamIndex(st, m), cursors[m]).number
            IN mergeForwards(st, [cursors EXCEPT ![n] = @ + 1], until,
                             Append(out, get(streamIndex(st, n), cursors[n])))

\* Mutant of mergeBackwards: of the previous entries the one with the lowest
\* number is taken.
RECURSIVE mergeBackwards_lowestFirst(_, _, _, _)
mergeBackwards_lowestFirst(st, cursors, until, out) ==
    LET live == { n \in DOMAIN cursors :
                    /\ cursors[n] >= 1
                    /\ get(streamIndex(st, n), cursors[n]).number >= until }
    IN IF live = {} THEN out
       ELSE LET n == CHOOSE n \in live :
                        \A m \in live : get(streamIndex(st, n), cursors[n]).number
                                           <= get(streamIndex(st, m), cursors[m]).number
            IN mergeBackwards_lowestFirst(st, [cursors EXCEPT ![n] = @ - 1], until,
                             Append(out, get(streamIndex(st, n), cursors[n])))

RECURSIVE mergeBackwards(_, _, _, _)
\* The k-way merge in descending order: of the previous entries of the stream
\* indexes the one with the highest number is taken, down to the number "until".
mergeBackwards(st, cursors, until, out) ==
    LET live == { n \in DOMAIN cursors :
                    /\ cursors[n] >= 1
                    /\ get(streamIndex(st, n), cursors[n]).number >= until }
    IN IF live = {} THEN out
       ELSE LET n == CHOOSE n \in live :
                        \A m \in live : get(streamIndex(st, n), cursors[n]).number
                                           >= get(streamIndex(st, m), cursors[m]).number
            IN mergeBackwards(st, [cursors EXCEPT ![n] = @ - 1], until,
                             Append(out, get(streamIndex(st, n), cursors[n])))

\* The entries a join iterates over: every stream index is entered at the
\* entry that find gives for the first number of the range.
joinEntries(st, names, from, until) ==
    IF from <= until
    THEN mergeForwards(st, [n \in names |-> find(streamIndex(st, n), from - 1) + 1],
                       until, <<>>)
    ELSE mergeBackwards(st, [n \in names |-> find(streamIndex(st, n), from)],
                        until, <<>>)

\* The entries a single stream iterates over: a range of its index.
singleEntries(st, name, from, until) ==
    LET idx == streamIndex(st, name)
    IN IF from <= until THEN [i \in 1..(until - from + 1) |-> get(idx, from + i - 1)]
       ELSE [i \in 1..(from - until + 1) |-> get(idx, from - i + 1)]

\* The document of an index entry.
documentAt(st, entry) == st.partitions[entry.partition][entry.position + 1]

\* The events the iterator of the stream yields from its start to its end;
\* the entries and the documents are read from the store as it is now.
iterate(st, s) ==
    LET b == bounds(st, s)
        entries == IF b.empty THEN <<>>
                   ELSE IF s.kind = "join" THEN joinEntries(st, s.names, b.from, b.until)
                   ELSE singleEntries(st, CHOOSE n \in s.names : TRUE, b.from, b.until)
    IN [i \in 1..Len(entries) |-> documentAt(st, entries[i]).payload]

\* next(): the next event of the iteration, if there is one.
next(st, s) ==
    LET all == iterate(st, s)
    IN IF s.cursor < Len(all)
       THEN [stream |-> [s EXCEPT !.cursor = @ + 1, !.yielded = Append(@, all[s.cursor + 1])],
             done |-> FALSE]
       ELSE [stream |-> s, done |-> TRUE]

RECURSIVE drain(_, _, _)
\* The events getter: the iterator is run to its end.
drain(st, s, out) ==
    LET r == next(st, s)
    IN IF r.done THEN [stream |-> s, events |-> out]
       ELSE drain(st, r.stream, Append(out, r.stream.yielded[Len(r.stream.yielded)]))

\* stream.events: materialised on the first access and kept.
events(st, s) ==
    IF s.cached THEN [stream |-> s, events |-> s.events]
    ELSE LET r == drain(st, s, <<>>)
         IN [stream |-> [r.stream EXCEPT !.events = r.events, !.cached = TRUE],
             events |-> r.events]

InitStream ==
    /\ \E c \in Configs : /\ readBufferSize = c.readBufferSize
                          /\ writeBufferSize = c.writeBufferSize
                          /\ maxWriteBufferDocuments = c.maxWriteBufferDocuments
                          /\ c.readBufferSize = 12 /\ c.maxWriteBufferDocuments = 0
    /\ fd = FALSE
    /\ readBuffer = <<>>
    /\ readBufferPos = -1
    /\ writeBuffer = <<>>
    /\ writeBufferCursor = 0
    /\ writeBufferDocuments = 0
    /\ flushCallbacks = <<>>
    /\ size = Undefined
    /\ file = <<>>
    /\ ticks = <<>>
    /\ draining = FALSE
    /\ docs = <<>>
    /\ calls = <<>>
    /\ diskWrites = 0
    /\ bufDocs = <<>>
    /\ truncated = FALSE
    /\ closed = FALSE
    /\ steps = 0
    /\ NoStore
    /\ NoStream
    /\ NoIndex
    /\ NoReader

\* A writer commits events to a stream, whatever the version of the stream.
CommitAny ==
    /\ \E name \in Streams, n \in CommitSizes :
          /\ Len(committed) + n <= MaxEvents
          /\ store' = commit(store, name, newEvents(n), ExpectedVersionAny).store
          /\ committed' = committed \o committedEntries(name, newEvents(n), ExpectedVersionAny)
    /\ UNCHANGED <<prepared, eventStream>>
    /\ UNCHANGED partitionVars
    /\ UNCHANGED <<indexVars, readerVars>>

\* eventstore.getEventStream(name, min, max) or eventstore.fromStreams(name, streams, min, max)
GetEventStream ==
    /\ eventStream.kind = "none"
    /\ \E r \in Ranges :
          \/ \E name \in Streams :
                /\ name \in DOMAIN store.indexes
                /\ eventStream' = newStream(store, "single", {name}, r[1], r[2], Len(committed))
          \/ \E names \in JoinSets :
                eventStream' = newStream(store, "join", names, r[1], r[2], Len(committed))
    /\ UNCHANGED storeVars
    /\ UNCHANGED partitionVars
    /\ UNCHANGED <<indexVars, readerVars>>

\* One of the range selection calls, before the iteration has begun.
SelectRange ==
    /\ eventStream.kind # "none"
    /\ eventStream.cursor = 0 /\ ~eventStream.cached
    /\ \E builder \in Builders : eventStream' = select(store, eventStream, builder)
    /\ UNCHANGED storeVars
    /\ UNCHANGED partitionVars
    /\ UNCHANGED <<indexVars, readerVars>>

\* One step of the iteration over the stream.
NextEvent ==
    /\ eventStream.kind # "none"
    /\ ~eventStream.cached
    /\ ~next(store, eventStream).done
    /\ eventStream' = next(store, eventStream).stream
    /\ UNCHANGED storeVars
    /\ UNCHANGED partitionVars
    /\ UNCHANGED <<indexVars, readerVars>>

\* A read of stream.events.
ReadEvents ==
    /\ eventStream.kind # "none"
    /\ eventStream' = events(store, eventStream).stream
    /\ UNCHANGED storeVars
    /\ UNCHANGED partitionVars
    /\ UNCHANGED <<indexVars, readerVars>>

\* stream.reset()
Reset ==
    /\ eventStream.kind # "none"
    /\ eventStream.cursor > 0 \/ eventStream.cached
    /\ eventStream' = reset(eventStream)
    /\ UNCHANGED storeVars
    /\ UNCHANGED partitionVars
    /\ UNCHANGED <<indexVars, readerVars>>

NextStream ==
    \/ CommitAny
    \/ GetEventStream
    \/ SelectRange
    \/ NextEvent
    \/ ReadEvents
    \/ Reset

SpecStream == InitStream /\ [][NextStream]_vars

\* ------------------------------------------------------------- read-only storage
\* A read-only storage that watches its data directory and one of its
\* indexes.  reader.partitions maps a partition id to the name of the
\* partition file, reader.emitted lists the events the storage emitted,
\* reader.indexFile and reader.documents are what the writer has put on disk,
\* reader.indexLength is the length the index of the reader has seen.
\* reader.watcher tells whether this.watcher is set, reader.watchers lists the
\* watchers fs.watch created, in order, each TRUE until it is closed.

\* "st", the file name prefix of this storage
storageFile == <<115, 116>>
\* ".index" and ".branch"
IndexSuffix == <<46, 105, 110, 100, 101, 120>>
BranchSuffix == <<46, 98, 114, 97, 110, 99, 104>>
\* The partition files "st.a" and "st.b" of this storage.
PartitionFiles == { storageFile \o <<46, 97>>, storageFile \o <<46, 98>> }
\* The partition file "st2.a" of the storage "st2" in the same directory.
LongerStorageFile == storageFile \o <<50, 46, 97>>
\* The lock file "st.lock" a writer of this storage creates when it opens.
LockFile == storageFile \o <<46, 108, 111, 99, 107>>
\* The files of this storage that are neither partitions nor indexes: the lock
\* file, the catalog "st.streams" and the consumer checkpoint "st.x.c.state".
SidecarFiles ==
    { LockFile,
      storageFile \o <<46, 115, 116, 114, 101, 97, 109, 115>>,
      storageFile \o <<46, 120, 46, 99, 46, 115, 116, 97, 116, 101>> }
\* The file names the directory watcher is notified of while the storage
\* follows its index: the partitions, the branch sidecar "st.a.branch", the
\* indexes "st.index" and "st.x.index", the files "ot.a" and "ot.index" of
\* another storage, and the short name "s".
Filenames ==
    PartitionFiles \cup
    { storageFile \o <<46, 97>> \o BranchSuffix,
      storageFile \o IndexSuffix,
      storageFile \o <<46, 120>> \o IndexSuffix,
      <<111, 116, 46, 97>>,
      <<111, 116>> \o IndexSuffix,
      <<115>> }
\* All file names of the directory: those above, the partition of the storage
\* "st2" and the files of this storage that are not partitions.
AllFilenames == Filenames \cup {LongerStorageFile} \cup SidecarFiles
\* What fs.watch reports.
EventTypes == {"rename", "change"}
\* The name of the watched index, "x".
IndexName == <<120>>

RECURSIVE xor(_, _)
\* The bitwise exclusive or of two natural numbers.
xor(a, b) ==
    IF a = 0 THEN b
    ELSE IF b = 0 THEN a
    ELSE (((a % 2) + (b % 2)) % 2) + 2 * xor(a \div 2, b \div 2)

RECURSIVE hashFrom(_, _, _)
\* The loop of hash: the 32 bits of the hash are kept as two halves of 16
\* bits; (hash << 5) + hash is hash * 33 modulo 2^32.
hashFrom(str, i, h) ==
    IF i = 0 THEN h
    ELSE LET lo == h.lo * 33
             hi == h.hi * 33 + (lo \div 65536)
         IN hashFrom(str, i - 1, [hi |-> hi % 65536, lo |-> xor(lo % 65536, str[i])])

\* hash(str): an unsigned 32-bit integer.
hash(str) ==
    IF Len(str) = 0 THEN [hi |-> 0, lo |-> 0]
    ELSE hashFrom(str, Len(str), [hi |-> 0, lo |-> 5381])

\* ReadablePartition.idFor(name)
idFor(name) == hash(name)

\* str.substr(start): from start, counted from the end when negative.
substrFrom(str, start) ==
    SubSeq(str, (IF start < 0 THEN Max(Len(str) + start, 0) ELSE start) + 1, Len(str))

\* createPartition(name): the partition object with its name and id.
createPartition(name) == [name |-> name, id |-> hash(name)]

\* this.emit(...)
emit(r, event) == [r EXCEPT !.emitted = Append(@, event)]

\* Mutant of onDirectoryContentsChanged: a partition is registered whether
\* its id is in the partition map or not.
onDirectoryContentsChanged_alwaysRegisters(r, eventType, filename) ==
    IF eventType = "change" THEN r
    ELSE IF substrFrom(filename, -7) = BranchSuffix THEN r
    ELSE IF substr(filename, 0, Len(storageFile)) # storageFile THEN r
    ELSE IF substrFrom(filename, -6) = IndexSuffix
         THEN emit(r, [event |-> "index-created", arg |-> filename])
    ELSE LET partition == createPartition(filename)
         IN emit([r EXCEPT !.partitions = withKey(@, partition.id, partition.name)],
                 [event |-> "partition-created", arg |-> partition.id])

\* Mutant of onDirectoryContentsChanged: a file whose name ends in '.branch'
\* is treated like any other file.
onDirectoryContentsChanged_branchNotIgnored(r, eventType, filename) ==
    IF eventType = "change" THEN r
    ELSE IF substr(filename, 0, Len(storageFile)) # storageFile THEN r
    ELSE IF substrFrom(filename, -6) = IndexSuffix
         THEN emit(r, [event |-> "index-created", arg |-> filename])
    ELSE LET partitionId == idFor(filename)
         IN IF partitionId \notin DOMAIN r.partitions
            THEN LET partition == createPartition(filename)
                 IN emit([r EXCEPT !.partitions = withKey(@, partition.id, partition.name)],
                         [event |-> "partition-created", arg |-> partition.id])
            ELSE r

\* onDirectoryContentsChanged(eventType, filename)
onDirectoryContentsChanged(r, eventType, filename) ==
    IF eventType = "change" THEN r
    ELSE IF substrFrom(filename, -7) = BranchSuffix THEN r
    ELSE IF substr(filename, 0, Len(storageFile)) # storageFile THEN r
    ELSE IF substrFrom(filename, -6) = IndexSuffix
         THEN emit(r, [event |-> "index-created", arg |-> filename])
    ELSE LET partitionId == idFor(filename)
         IN IF partitionId \notin DOMAIN r.partitions
            THEN LET partition == createPartition(filename)
                 IN emit([r EXCEPT !.partitions = withKey(@, partition.id, partition.name)],
                         [event |-> "partition-created", arg |-> partition.id])
            ELSE r

\* this.readFrom(partition, position): the document at that place on disk.
readDocument(r, entry) == r.documents[entry.partition][entry.position + 1]

RECURSIVE announce(_, _, _)
\* The loop of the append handler over the entries.
announce(r, entries, i) ==
    IF i > Len(entries) THEN r
    ELSE announce(emit(r, [event |-> "index-add", name |-> IndexName,
                           number |-> entries[i].number,
                           document |-> readDocument(r, entries[i])]),
                  entries, i + 1)

\* The index of the reader as it is when it emits append: all entries of
\* the file, up to the new length.
readerIndex(r, length) == flushedIndex(SubSeq(r.indexFile, 1, length))

\* Mutant of onAppend: the range starts at prevLength.
onAppend_fromPrevLength(r, prevLength, newLength) ==
    LET entries == range(readerIndex(r, newLength), prevLength, newLength)
    IN IF ~entries.ok THEN r ELSE announce(r, entries.entries, 1)

\* The handler createIndex registers for append(prevLength, newLength).
onAppend(r, prevLength, newLength) ==
    LET entries == range(readerIndex(r, newLength), prevLength + 1, newLength)
    IN IF ~entries.ok THEN r ELSE announce(r, entries.entries, 1)

InitReader ==
    /\ \E c \in Configs : /\ readBufferSize = c.readBufferSize
                          /\ writeBufferSize = c.writeBufferSize
                          /\ maxWriteBufferDocuments = c.maxWriteBufferDocuments
                          /\ c.readBufferSize = 12 /\ c.maxWriteBufferDocuments = 0
    /\ fd = FALSE
    /\ readBuffer = <<>>
    /\ readBufferPos = -1
    /\ writeBuffer = <<>>
    /\ writeBufferCursor = 0
    /\ writeBufferDocuments = 0
    /\ flushCallbacks = <<>>
    /\ size = Undefined
    /\ file = <<>>
    /\ ticks = <<>>
    /\ draining = FALSE
    /\ docs = <<>>
    /\ calls = <<>>
    /\ diskWrites = 0
    /\ bufDocs = <<>>
    /\ truncated = FALSE
    /\ closed = FALSE
    /\ steps = 0
    /\ NoStore
    /\ NoStream
    /\ NoIndex
    /\ reader = [watcher |-> TRUE, watchers |-> <<TRUE>>,
                 partitions |-> <<>>, emitted |-> <<>>,
                 indexFile |-> <<>>, indexLength |-> 0,
                 documents |-> [f \in PartitionFiles |-> <<>>]]

\* What the read-only storage leaves alone.
ReaderOnly ==
    /\ UNCHANGED partitionVars
    /\ UNCHANGED storeVars
    /\ UNCHANGED <<streamVars, indexVars>>

\* A directory watcher that was not closed reports one of the files.
Notified(filenames) ==
    /\ \E i \in 1..Len(reader.watchers) : reader.watchers[i]
    /\ Len(reader.emitted) - Len(SelectSeq(reader.emitted, LAMBDA e : e.event = "index-add"))
          < MaxNotifications
    /\ \E eventType \in EventTypes, filename \in filenames :
          reader' = onDirectoryContentsChanged(reader, eventType, filename)
    /\ ReaderOnly

\* The directory watcher reports a file while the storage follows its index.
DirectoryChanged == Notified(Filenames)

RECURSIVE writerAppends(_, _)
\* The writer puts n more documents and their index entries on disk: the
\* documents go to the two partitions in turn, the numbers of the entries
\* are the even numbers.
writerAppends(r, n) ==
    IF n = 0 THEN r
    ELSE LET number == Len(r.indexFile) + 1
             f == CHOOSE g \in PartitionFiles : (g[Len(g)] % 2) = (number % 2)
         IN writerAppends([r EXCEPT !.documents[f] = Append(@, number),
                                    !.indexFile = Append(@, [number |-> 2 * number,
                                                             position |-> Len(r.documents[f]),
                                                             partition |-> f])],
                          n - 1)

\* The writer flushes documents and their index entries to disk.
WriterFlushes ==
    /\ \E n \in CommitSizes :
          /\ Len(reader.indexFile) + n <= MaxNotifications
          /\ reader' = writerAppends(reader, n)
    /\ ReaderOnly

\* The index of the reader notices that its file has grown and emits
\* append(prevLength, newLength).
IndexAppended ==
    /\ reader.watcher
    /\ \E newLength \in (reader.indexLength + 1)..Len(reader.indexFile) :
          reader' = [onAppend(reader, reader.indexLength, newLength)
                        EXCEPT !.indexLength = newLength]
    /\ ReaderOnly

NextReader ==
    \/ DirectoryChanged
    \/ WriterFlushes
    \/ IndexAppended

SpecReader == InitReader /\ [][NextReader]_vars

\* Mutant of openReader: a watcher is created at every open.
openReader_alwaysWatches(r) ==
    [r EXCEPT !.watcher = TRUE, !.watchers = Append(@, TRUE)]

\* open(): fs.watch is called when this.watcher is not set.
openReader(r) ==
    IF ~r.watcher THEN [r EXCEPT !.watcher = TRUE, !.watchers = Append(@, TRUE)] ELSE r

\* close(): the watcher in this.watcher, the one created last, is closed and
\* this.watcher is cleared.
closeReader(r) ==
    IF r.watcher THEN [r EXCEPT !.watcher = FALSE, !.watchers[Len(r.watchers)] = FALSE]
    ELSE r

\* A read-only storage that was constructed and not opened yet.
InitWatcher ==
    /\ \E c \in Configs : /\ readBufferSize = c.readBufferSize
                          /\ writeBufferSize = c.writeBufferSize
                          /\ maxWriteBufferDocuments = c.maxWriteBufferDocuments
                          /\ c.readBufferSize = 12 /\ c.maxWriteBufferDocuments = 0
    /\ fd = FALSE
    /\ readBuffer = <<>>
    /\ readBufferPos = -1
    /\ writeBuffer = <<>>
    /\ writeBufferCursor = 0
    /\ writeBufferDocuments = 0
    /\ flushCallbacks = <<>>
    /\ size = Undefined
    /\ file = <<>>
    /\ ticks = <<>>
    /\ draining = FALSE
    /\ docs = <<>>
    /\ calls = <<>>
    /\ diskWrites = 0
    /\ bufDocs = <<>>
    /\ truncated = FALSE
    /\ closed = FALSE
    /\ steps = 0
    /\ NoStore
    /\ NoStream
    /\ NoIndex
    /\ reader = [watcher |-> FALSE, watchers |-> <<>>,
                 partitions |-> <<>>, emitted |-> <<>>,
                 indexFile |-> <<>>, indexLength |-> 0,
                 documents |-> [f \in PartitionFiles |-> <<>>]]

\* storage.open(): at most MaxOpens watchers are created in one behaviour.
ReaderOpen ==
    /\ Len(reader.watchers) < MaxOpens
    /\ reader' = openReader(reader)
    /\ ReaderOnly

\* storage.close()
ReaderClose ==
    /\ reader' = closeReader(reader)
    /\ ReaderOnly

\* The directory watcher reports any file of the directory.
AnyFileChanged == Notified(AllFilenames)

NextWatcher ==
    \/ ReaderOpen
    \/ ReaderClose
    \/ AnyFileChanged

SpecWatcher == InitWatcher /\ [][NextWatcher]_vars

\* ------------------------------------------------------------- iterator streams
\* The EventStream that wraps an iterator over storage documents.  In this
\* part eventStream is such a stream: iterator holds the payloads of the items
\* the iterator still has to give from cursor on, consumer tells how the
\* stream is consumed ("none", "for-of" or "data"), delivered lists what the
\* consumer received and ended tells that the consumer was told the end.

\* The payloads of the items: two event objects and the values 0, '', null
\* and false.
PayloadValues == {"{a}", "{b}", "0", "''", "null", "false"}
\* The payloads JavaScript takes for true in a condition.
truthy(value) == value \in {"{a}", "{b}"}
\* The iterators: every sequence of at most MaxItems payloads.
Iterators == UNION { [1..k -> PayloadValues] : k \in 0..MaxItems }

\* new EventStream(iterator): without an iterator the stream gets one that is
\* done at once.
newEventStream(given, iterator) ==
    [kind |-> "iterator", given |-> given,
     iterator |-> IF given THEN iterator ELSE <<>>,
     cursor |-> 0, consumer |-> "none", delivered |-> <<>>, ended |-> FALSE]

\* this.iterator.next()
iteratorNext(s) ==
    IF s.cursor < Len(s.iterator)
    THEN [s |-> [s EXCEPT !.cursor = @ + 1], done |-> FALSE, payload |-> s.iterator[s.cursor + 1]]
    ELSE [s |-> s, done |-> TRUE, payload |-> "undefined"]

\* next(): false when the iterator is done, else the payload of the item.
streamNext(s) ==
    LET n == iteratorNext(s)
    IN [s |-> n.s, value |-> IF n.done THEN "false" ELSE n.payload]

\* One round of the loop of [Symbol.iterator]: while ((next = this.next()) !== false) yield next
forOfStep(s) ==
    LET n == streamNext(s)
    IN IF n.value # "false"
       THEN [n.s EXCEPT !.delivered = Append(@, n.value)]
       ELSE [n.s EXCEPT !.ended = TRUE]

\* _read(): push(next ? next : null); a pushed value reaches the 'data'
\* listener, push(null) ends the stream.
read(s) ==
    LET n == streamNext(s)
    IN IF truthy(n.value)
       THEN [n.s EXCEPT !.delivered = Append(@, n.value)]
       ELSE [n.s EXCEPT !.ended = TRUE]

InitIterator ==
    /\ \E c \in Configs : /\ readBufferSize = c.readBufferSize
                          /\ writeBufferSize = c.writeBufferSize
                          /\ maxWriteBufferDocuments = c.maxWriteBufferDocuments
                          /\ c.readBufferSize = 12 /\ c.maxWriteBufferDocuments = 0
    /\ fd = FALSE
    /\ readBuffer = <<>>
    /\ readBufferPos = -1
    /\ writeBuffer = <<>>
    /\ writeBufferCursor = 0
    /\ writeBufferDocuments = 0
    /\ flushCallbacks = <<>>
    /\ size = Undefined
    /\ file = <<>>
    /\ ticks = <<>>
    /\ draining = FALSE
    /\ docs = <<>>
    /\ calls = <<>>
    /\ diskWrites = 0
    /\ bufDocs = <<>>
    /\ truncated = FALSE
    /\ closed = FALSE
    /\ steps = 0
    /\ NoStore
    /\ NoIndex
    /\ NoReader
    /\ \/ \E iterator \in Iterators : eventStream = newEventStream(TRUE, iterator)
       \/ eventStream = newEventStream(FALSE, <<>>)

\* What the iterator stream leaves alone.
StreamOnly ==
    /\ UNCHANGED partitionVars
    /\ UNCHANGED storeVars
    /\ UNCHANGED <<indexVars, readerVars>>

\* for (let event of stream): the loop begins.
ForOf ==
    /\ eventStream.consumer = "none"
    /\ eventStream' = [eventStream EXCEPT !.consumer = "for-of"]
    /\ StreamOnly

\* One round of the for..of loop.
ForOfStep ==
    /\ eventStream.consumer = "for-of"
    /\ ~eventStream.ended
    /\ eventStream' = forOfStep(eventStream)
    /\ StreamOnly

\* stream.on('data', listener): the stream starts to flow.
OnData ==
    /\ eventStream.consumer = "none"
    /\ eventStream' = [eventStream EXCEPT !.consumer = "data"]
    /\ StreamOnly

\* The flowing stream asks for the next chunk.
Read ==
    /\ eventStream.consumer = "data"
    /\ ~eventStream.ended
    /\ eventStream' = read(eventStream)
    /\ StreamOnly

NextIterator ==
    \/ ForOf
    \/ ForOfStep
    \/ OnData
    \/ Read

SpecIterator == InitIterator /\ [][NextIterator]_vars

\* ------------------------------------------------------------- properties
\* The n + 11 bytes a document is to occupy on disk.
framed(data) == utf8Encode(pad(toString(byteLength(data)), 10) \o data \o <<10>>)
\* The body of the file: what follows the header.
Body == SubSeq(file, headerSize + 1, Len(file))
Ascii(data) == byteLength(data) = Len(data)
\* Document i is non-empty ASCII, written by a caller whose callback writes nothing.
Plain(i) == /\ docs[i].data # <<>>
            /\ Ascii(docs[i].data)
            /\ docs[i].callback \in {"none", "noop"}
Calls(i) == Cardinality({ j \in 1..Len(calls) : calls[j].id = i })
\* A step in which a caller's write was accepted: its document is the first new
\* one (documents written by callbacks have the callback "inner").
CallerWrote == Len(docs') > Len(docs) /\ docs'[Len(docs) + 1].callback # "inner"

\* C1: after any sequence of write, flush and readFrom calls on an open partition,
\* readFrom at the position a write returned yields exactly the payload of that
\* write (stated for non-empty ASCII payloads written by callers).
C1_ReadReturnsPayload ==
    (fd /\ ~truncated /\ ~closed /\ \A i \in 1..Len(docs) : Plain(i)) =>
        \A i \in 1..Len(docs), g \in GarbageBytes :
            LET r == readFrom(World, docs[i].pos, 0, g)
            IN r.kind = "data" /\ r.data = docs[i].data

\* C2: once everything is flushed, the n + 11 framed bytes of every document are
\* in the body of the file at the position its write returned (stated for ASCII
\* payloads, without truncation).
C2_PositionIsDiskOffset ==
    (~truncated /\ writeBufferCursor = 0 /\ \A i \in 1..Len(docs) : Ascii(docs[i].data)) =>
        \A i \in 1..Len(docs) :
            /\ docs[i].pos + byteLength(docs[i].data) + 11 <= Len(Body)
            /\ SubSeq(Body, docs[i].pos + 1, docs[i].pos + byteLength(docs[i].data) + 11)
                 = framed(docs[i].data)

C4_EveryCallbackExactlyOnce ==
    /\ \A i \in 1..Len(docs) : Calls(i) <= 1
    /\ (ticks = <<>> /\ writeBufferCursor = 0) =>
          \A i \in 1..Len(docs) : docs[i].callback # "none" => Calls(i) = 1

\* C5: callbacks are invoked in the order of their write calls (stated for
\* callbacks that do not write themselves).
C5_CallbacksInRegistrationOrder ==
    (\A i \in 1..Len(docs) : docs[i].callback \in {"none", "noop"}) =>
        \A k \in 1..Len(calls) :
            \A i \in 1..(calls[k].id - 1) :
                docs[i].callback # "none" => \E j \in 1..(k - 1) : calls[j].id = i

\* C6: while an open partition holds bytes in its write buffer, a deferred flush
\* is in the nextTick queue.
C6_BufferedImpliesFlushPending ==
    (fd /\ writeBufferCursor > 0) => \E k \in 1..Len(ticks) : ticks[k] = FlushTask

\* Witness of C6: bytes are buffered after the partition was flushed and closed
\* and reopened.
C6_Witness ==
    fd /\ writeBufferCursor > 0 /\ closed /\ diskWrites > 0

\* C7: with maxWriteBufferDocuments = 0, a write whose n + 11 bytes fit behind
\* what the write buffer holds leaves the file alone and joins the buffer, the
\* buffered documents are never on disk, and when the buffer is emptied all its
\* documents go to disk in the same disk write.
C7_BurstIsOneDiskWrite ==
    [][/\ (/\ CallerWrote
           /\ maxWriteBufferDocuments = 0
           /\ writeBufferCursor + byteLength(docs'[Len(docs) + 1].data) + 11
                <= writeBufferSize)
          => (file' = file /\ bufDocs' = Append(bufDocs, Len(docs) + 1))
       /\ (maxWriteBufferDocuments = 0 /\ ~(Range(bufDocs) \subseteq Range(bufDocs')))
          => \A i \in Range(bufDocs) : docs'[i].io = diskWrites + 1
       /\ \A i \in Range(bufDocs') : docs'[i].io = 0]_vars

\* Witness of C7: two documents of one burst went to disk in one disk write.
C7_Witness ==
    /\ maxWriteBufferDocuments = 0
    /\ \E i, j \in 1..Len(docs) : i # j /\ docs[i].io > 0 /\ docs[i].io = docs[j].io

\* C8: right after a caller's write returned a position, readFrom at that
\* position yields the payload, whether the document is still in the write
\* buffer or already on disk (stated for non-empty ASCII payloads).
C8_ReadYourWrite ==
    [][(/\ CallerWrote
        /\ ~truncated /\ ~closed
        /\ \A i \in 1..Len(docs') : docs'[i].data # <<>> /\ Ascii(docs'[i].data)
                                     /\ docs'[i].callback \in {"none", "noop"})
       => \A g \in GarbageBytes :
             LET r == readFrom(World', docs'[Len(docs) + 1].pos, 0, g)
             IN r.kind = "data" /\ r.data = docs'[Len(docs) + 1].data]_vars

\* C9: when a partition is reopened after close, readAll yields the payloads of
\* all documents written, each once, in write order, and then ends (stated for
\* non-empty payloads written by callers whose callbacks write nothing).
C9_RoundTrip ==
    [][(/\ ~fd /\ fd' /\ closed /\ ~truncated
        /\ \A i \in 1..Len(docs') : /\ docs'[i].data # <<>>
                                     /\ docs'[i].callback \in {"none", "noop"})
       => \A g \in GarbageBytes :
             LET r == readAll(World', g)
             IN r.kind = "end" /\ r.items = [i \in 1..Len(docs') |-> docs'[i].data]]_vars

\* C10: no step changes a byte of the file below the smaller of the old and the
\* new length, and once the file has its header no step alters or cuts it.
C10_AppendOnly ==
    [][LET m == Min(Len(file), Len(file'))
       IN /\ SubSeq(file', 1, m) = SubSeq(file, 1, m)
          /\ Len(file) > 0 =>
                /\ Len(file') >= headerSize
                /\ SubSeq(file', 1, headerSize) = HEADER_MAGIC \o <<10>>]_vars

\* Witness of C10: truncate with a negative argument has cut all documents of a
\* file and left the header.
C10_Witness ==
    truncated /\ diskWrites > 0 /\ Len(file) = headerSize

\* C11: truncate(after) with after < size hands the documents of the write
\* buffer to the file, then leaves a body of exactly max(0, after) bytes and
\* size = max(0, after); every document that could be read and ends at or below
\* after is read as before, the next write returns max(0, after), and the same
\* truncate once more leaves file and size as they are (stated for after = -1
\* and after = 12, on the partition as it is and as it is after one more write).
C11_TruncateBelowSize ==
    fd =>
        \A w \in {World} \cup { write(World, data, callback) :
                                  data \in Payloads, callback \in CallbackKinds } :
            \A after \in { a \in TruncatePoints : a < w.size } :
                LET t == truncate(w, after)
                IN /\ \A i \in Range(w.bufDocs) : t.docs[i].io > 0
                   /\ Len(t.file) = headerSize + Max(0, after)
                   /\ t.size = Max(0, after)
                   /\ \A p \in {0, 11, 12, 13}, g \in GarbageBytes :
                         LET r == readFrom(w, p, 0, g)
                         IN (r.kind = "data" /\ p + byteLength(r.data) + 11 <= after) =>
                               LET r2 == readFrom(t, p, 0, g)
                               IN r2.kind = "data" /\ r2.data = r.data
                   /\ \A data \in Payloads :
                         write(t, data, "noop").docs[Len(t.docs) + 1].pos = Max(0, after)
                   /\ LET u == truncate(t, after)
                      IN u.file = t.file /\ u.size = t.size

\* Arguments of truncate above the size.
AboveArgs == {size + 1, size + 13}

\* C12 as claimed: truncate(after) with after >= size, after = size included,
\* leaves size, the file, the write buffer and the pending flush callbacks as
\* they are and invokes no callback.
C12_NoOpAtOrAboveSize ==
    size # Undefined =>
        \A after \in {size} \cup AboveArgs :
            LET t == truncate(World, after)
            IN /\ t.size = size
               /\ t.file = file
               /\ t.writeBuffer = writeBuffer
               /\ t.writeBufferCursor = writeBufferCursor
               /\ t.writeBufferDocuments = writeBufferDocuments
               /\ t.flushCallbacks = flushCallbacks
               /\ t.calls = calls

\* C12 amended: truncate(after) with after > size changes nothing at all;
\* truncate(size) flushes: the documents of the write buffer are handed to
\* the file and every pending flush callback is invoked, size stays and the
\* file has headerSize + size bytes.
C12_NoOpAboveSize ==
    size # Undefined =>
        /\ \A after \in AboveArgs : truncate(World, after) = World
        /\ LET t == truncate(World, size)
           IN /\ t.size = size
              /\ Len(t.file) = headerSize + size
              /\ fd => /\ \A i \in Range(bufDocs) : t.docs[i].io > 0
                       /\ \A i \in Range(flushCallbacks) :
                             \E j \in (Len(calls) + 1)..Len(t.calls) : t.calls[j].id = i

\* Witness of C12: after an earlier truncate, an open partition holds an
\* unflushed document with a callback: truncate(size) flushes it and invokes
\* the callback, truncate(size + 1) does nothing.
C12_Witness ==
    /\ fd /\ truncated /\ writeBufferCursor > 0 /\ flushCallbacks # <<>>
    /\ truncate(World, size).calls # calls
    /\ truncate(World, size).diskWrites = diskWrites + 1
    /\ truncate(World, size + 1) = World

\* C13: with maxWriteBufferDocuments = m > 0 the write buffer holds fewer than
\* m documents whenever an operation has returned; with m = 1 the write buffer
\* is empty and every document written has been handed to the file.
C13_BufferBelowThreshold ==
    maxWriteBufferDocuments > 0 =>
        /\ writeBufferDocuments < maxWriteBufferDocuments
        /\ Len(bufDocs) < maxWriteBufferDocuments
        /\ maxWriteBufferDocuments = 1 =>
              /\ writeBufferCursor = 0
              /\ \A i \in 1..Len(docs) : docs[i].io > 0

\* Witness of C13: with m = 2, open and two writes: both documents went to the
\* file in one disk write before the deferred flush ran.
C13_Witness ==
    /\ maxWriteBufferDocuments = 2 /\ steps = 3 /\ Len(docs) = 2
    /\ docs[1].io = 1 /\ docs[2].io = 1
    /\ writeBufferDocuments = 0
    /\ \E k \in 1..Len(ticks) : ticks[k] = FlushTask

RECURSIVE framedSizes(_)
\* The sum of the framed sizes n + 11 of a sequence of documents.
framedSizes(ds) ==
    IF ds = <<>> THEN 0 ELSE byteLength(Head(ds).data) + 11 + framedSizes(Tail(ds))

\* C14: close hands every document of the write buffer to the file and invokes
\* the pending flush callbacks; when the partition is opened again, size is the
\* sum of the framed sizes of all documents written; flush on a closed partition
\* does nothing (stated for ASCII payloads, without truncation).
C14_CloseFlushes ==
    [][/\ (fd /\ ~fd') =>
             /\ \A i \in Range(bufDocs) : docs'[i].io > 0
             /\ \A i \in Range(flushCallbacks) :
                   \E j \in (Len(calls) + 1)..Len(calls') : calls'[j].id = i
             /\ flush(World') = World'
       /\ (/\ ~fd /\ fd' /\ closed /\ ~truncated
           /\ \A i \in 1..Len(docs') : Ascii(docs'[i].data))
          => size' = framedSizes(docs')]_vars

\* The document length announced by the 10 bytes the file holds at position p
\* of the body; 0 when they are not a length prefix.
storedLength(w, p) ==
    LET str == utf8Decode(SubSeq(w.file, headerSize + p + 1, headerSize + p + 10))
    IN IF lengthPattern(str) THEN parseInt(str) ELSE 0

\* Position p of w holds the prefix of a document that extends past the end
\* of the data; the write buffer is empty, so all data is in the file.
Torn(w, p) ==
    /\ w.fd /\ w.writeBufferCursor = 0
    /\ p >= 0 /\ p + 10 < w.size /\ headerSize + p + 10 <= Len(w.file)
    /\ storedLength(w, p) > 0
    /\ p + storedLength(w, p) + 11 > w.size

\* C15: when the length prefix stored at position p announces a document that
\* extends past the end of the data, as it is or after truncate has cut the
\* last one or two bytes, readFrom(p) throws CorruptFileError (stated for ASCII
\* payloads).
C15_TornWriteDetected ==
    (fd /\ \A i \in 1..Len(docs) : Ascii(docs[i].data)) =>
        \A w \in {World, truncate(World, size - 1), truncate(World, size - 2)} :
            \A p \in Positions, g \in GarbageBytes :
                Torn(w, p) => readFrom(w, p, 0, g).kind = "CorruptFileError"

\* C16: on an open partition readFrom(p) with p + 10 >= size returns false and
\* changes nothing, and readAll over the k documents written yields k documents
\* and then ends without an error (stated for non-empty ASCII payloads written
\* by callers, without truncation or reopening).
C16_EndOfDataIsNotAnError ==
    fd =>
        /\ \A p \in Positions \cup {size - 10, size}, g \in GarbageBytes :
              p + 10 >= size =>
                 LET r == readFrom(World, p, 0, g)
                 IN r.kind = "false" /\ r.w = World
        /\ (~truncated /\ ~closed /\ \A i \in 1..Len(docs) : Plain(i)) =>
              \A g \in GarbageBytes :
                 LET a == readAll(World, g)
                 IN /\ a.kind = "end"
                    /\ Len(a.items) = Len(docs)
                    /\ a.w.size = size /\ a.w.file = file

\* C17 as claimed: on a partition that is not open readFrom returns false and
\* write throws InvalidState.
C17_WriteThrowsWhenClosed ==
    ~fd =>
        /\ \A p \in Positions, g \in GarbageBytes : readFrom(World, p, 0, g).kind = "false"
        /\ \A data \in Payloads, callback \in CallbackKinds :
              writeResult(World, data, callback).kind = "InvalidState"

\* C17 amended: on a partition that is not open readFrom returns false and
\* write returns false, and neither changes the partition or its file.
C17_FalseWhenClosed ==
    ~fd =>
        /\ \A p \in Positions, g \in GarbageBytes :
              LET r == readFrom(World, p, 0, g)
              IN r.kind = "false" /\ r.w = World
        /\ \A data \in Payloads, callback \in CallbackKinds :
              /\ writeResult(World, data, callback).kind = "false"
              /\ write(World, data, callback) = World

\* Witness of C17: a partition that was closed with documents in its file turns
\* a write and a read of the first document away.
C17_Witness ==
    /\ ~fd /\ closed /\ Len(docs) > 0 /\ docs[1].io > 0 /\ size > 11
    /\ writeResult(World, <<97>>, "noop").kind = "false"
    /\ readFrom(World, 0, 0, 32).kind = "false"

\* C18: open on a file that does not start with the magic throws and leaves the
\* partition closed; the error is "Invalid file version" (VersionMismatch) when
\* the magic without its two version characters matches, and "Invalid file
\* header" (InvalidHeader) for every other mismatch.
C18_ForeignHeaderRejected ==
    (~fd /\ Len(file) > 0 /\ SubSeq(file, 1, Len(HEADER_MAGIC)) # HEADER_MAGIC) =>
        LET r == open(World)
        IN /\ r.threw
           /\ ~r.w.fd
           /\ r.error = IF SubSeq(file, 1, Len(HEADER_MAGIC) - 2)
                            = SubSeq(HEADER_MAGIC, 1, Len(HEADER_MAGIC) - 2)
                        THEN "Invalid file version" ELSE "Invalid file header"

\* The events committed to a stream so far, in commit order.
committedTo(streams) == SelectSeq(committed, LAMBDA e : e.stream \in streams)

\* C19: a commit with a concrete expected version (the number of events
\* committed to the stream, one less, one more) succeeds iff that version is the
\* number of events committed to the stream, and a failed commit appends
\* nothing; no two successful commits to a stream had the same concrete
\* expected version; the k-th event of a commit gets streamVersion
\* currentVersion + k, so the versions of a stream are 1, 2, 3, ...
C19_OptimisticConcurrency ==
    /\ \A stream \in Streams, delta \in {-1, 0, 1}, n \in CommitSizes :
          LET before == Len(committedTo({stream}))
              expectedVersion == IF before + delta < 0 THEN MaxEvents + 1 ELSE before + delta
              r == commit(store, stream, newEvents(n), expectedVersion)
          IN /\ r.threw <=> expectedVersion # before
             /\ r.threw =>
                   /\ r.store.primary = store.primary
                   /\ \A x \in DOMAIN store.partitions :
                         r.store.partitions[x] = store.partitions[x]
                   /\ \A x \in DOMAIN store.indexes : r.store.indexes[x] = store.indexes[x]
             /\ ~r.threw =>
                   /\ Len(r.store.partitions[stream]) = before + n
                   /\ \A k \in 1..n :
                         r.store.partitions[stream][before + k].metadata.streamVersion
                            = before + k
    /\ \A i, j \in 1..Len(committed) :
          (/\ committed[i].commit # committed[j].commit
           /\ committed[i].stream = committed[j].stream
           /\ committed[i].expectedVersion # ExpectedVersionAny)
          => committed[i].expectedVersion # committed[j].expectedVersion
    /\ \A i \in 1..Len(committed) :
          committed[i].expectedVersion # ExpectedVersionAny =>
             \E d \in Range(store.partitions[committed[i].stream]) :
                /\ d.payload = committed[i].payload
                /\ d.metadata.streamVersion = committed[i].expectedVersion + committed[i].k
    /\ \A stream \in DOMAIN store.partitions :
          \A i \in 1..Len(store.partitions[stream]) :
             store.partitions[stream][i].metadata.streamVersion = i

\* Witness of C19: two clients read the same version of a stream that already
\* had events; the commit of one succeeded and the commit of the other failed.
C19_Witness ==
    \E c1, c2 \in Clients :
        /\ prepared[c1].state = "succeeded" /\ prepared[c2].state = "failed"
        /\ prepared[c1].stream = prepared[c2].stream
        /\ prepared[c1].version = prepared[c2].version
        /\ prepared[c1].version > 0

\* C20: a JoinEventStream over a set of streams yields the events committed to
\* these streams, each once, in commit order; a stream that does not exist
\* contributes nothing.
C20_JoinInCommitOrder ==
    \A streams \in SUBSET (Streams \cup {MissingStream}) :
        streams # {} =>
            joinEvents(store, streams)
               = [i \in 1..Len(committedTo(streams)) |-> committedTo(streams)[i].payload]

\* Witness of C20: events were committed to foo, bar and foo again, and the join
\* of foo, bar and a missing stream yields them in that order.
C20_Witness ==
    /\ Len(committed) >= 3
    /\ committed[1].stream = "foo" /\ committed[2].stream = "bar"
    /\ committed[3].stream = "foo"
    /\ SubSeq(joinEvents(store, {"foo", "bar", MissingStream}), 1, 3) = <<1, 2, 3>>
    /\ joinEvents(store, {MissingStream}) = <<>>


\* The stream of the store over the given streams and revisions, as obtained now.
joined(names, minRevision, maxRevision) ==
    newStream(store, "join", names, minRevision, maxRevision, Len(committed))

\* C21: a JoinEventStream iterated backwards (fromEnd().toStart(), or
\* fromStart().toEnd().backwards(), or backwards() on a given range) yields
\* exactly the reverse of what the forward iteration over the same range
\* yields, and the events getter gives the same sequence every time it is
\* read, also when events were committed in between.  The builders are
\* applied to a stream that is obtained in the state, the getter is read on
\* the stream of the state.
C21_BackwardsIsReverse ==
    /\ \A names \in (IF eventStream.kind = "none" THEN JoinSets ELSE {}) :
          LET s == joined(names, 1, -1)
              all == select(store, select(store, s, "fromStart"), "toEnd")
              forwards == events(store, all).events
          IN /\ events(store, select(store, select(store, s, "fromEnd"), "toStart")).events
                   = Reverse(forwards)
             /\ events(store, select(store, all, "backwards")).events = Reverse(forwards)
             /\ \A r \in Ranges :
                   events(store, select(store, joined(names, r[1], r[2]), "backwards")).events
                      = Reverse(events(store, joined(names, r[1], r[2])).events)
    /\ eventStream.kind = "join" =>
          LET first == events(store, eventStream)
          IN /\ events(store, first.stream).events = first.events
             /\ \A name \in Streams :
                   events(commit(store, name, <<0>>, ExpectedVersionAny).store,
                          first.stream).events = first.events
             /\ eventStream.cached /\ eventStream.yielded = eventStream.events =>
                   eventStream.events
                      = Reverse(iterate(store, [eventStream EXCEPT
                                                   !.minRevision = eventStream.maxRevision,
                                                   !.maxRevision = eventStream.minRevision]))

\* A join of both streams was read backwards after three events had been
\* committed to the two streams in turn.
C21_Witness ==
    /\ eventStream.kind = "join" /\ eventStream.names = {"foo", "bar"}
    /\ eventStream.cached /\ eventStream.yielded = eventStream.events
    /\ Len(eventStream.events) >= 3
    /\ eventStream.events[1] > eventStream.events[2]
    /\ \E i, j, k \in 1..Len(committed) :
          /\ i < j /\ j < k
          /\ committed[i].stream = "foo" /\ committed[j].stream = "bar"
          /\ committed[k].stream = "foo"
          /\ k <= eventStream.born

\* C22: the revision range of an event stream is fixed when the stream is
\* obtained: an event that was committed after that, before or during the
\* iteration, is never yielded by the stream.
C22_RangeFixedAtConstruction ==
    /\ \A i \in 1..Len(eventStream.yielded) : eventStream.yielded[i] <= eventStream.born
    /\ \A i \in 1..Len(eventStream.events) : eventStream.events[i] <= eventStream.born
    /\ eventStream.kind # "none" =>
          \A i \in 1..Len(iterate(store, eventStream)) :
             iterate(store, eventStream)[i] <= eventStream.born

\* A stream was iterated to its end although an event had been committed to
\* one of its streams after it was obtained and before its last event was yielded.
C22_Witness ==
    /\ eventStream.kind # "none"
    /\ Len(eventStream.yielded) >= 2
    /\ next(store, eventStream).done
    /\ \E i \in 1..Len(committed) :
          /\ i > eventStream.born
          /\ committed[i].stream \in eventStream.names

\* The keys find is asked for: from below the first number to above the last.
FindKeys == 0..(2 * MaxEvents + 1)

\* C23: on an index whose entries have strictly increasing numbers find(key)
\* is 0 when the key is below the number of the first entry or the index is
\* empty, the length when the key is at or above the number of the last
\* entry, and otherwise the largest n whose entry has a number at or below the
\* key; it is the same whether the entries are flushed or not.
C23_FindIsLargestAtOrBelow ==
    index.fd =>
       LET entries == index.entries
           length == Len(entries)
       IN /\ \A n \in 2..length : entries[n - 1].number < entries[n].number
          /\ \A key \in FindKeys :
                LET n == find(index, key)
                IN /\ length = 0 => n = 0
                   /\ length > 0 /\ key < entries[1].number => n = 0
                   /\ length > 0 /\ key >= entries[length].number => n = length
                   /\ length > 0 /\ key >= entries[1].number /\ key < entries[length].number =>
                         /\ n \in 1..(length - 1)
                         /\ entries[n].number <= key
                         /\ key < entries[n + 1].number
                   /\ find(flushIndex(index), key) = n
                   /\ find(flushedIndex(entries), key) = n

\* An index with a flushed entry and unflushed ones was searched for a key
\* that lies between the numbers of two unflushed entries and for the number
\* of an entry in the middle.
C23_Witness ==
    /\ index.fd
    /\ Len(index.file) >= 1 /\ Len(index.writeBuffer) >= 2
    /\ \E key \in FindKeys :
          LET n == find(index, key)
          IN /\ n > Len(index.file) /\ n < index.length
             /\ get(index, n).number < key
             /\ key < get(index, n + 1).number
    /\ \E key \in FindKeys :
          LET n == find(index, key)
          IN n > 1 /\ n < index.length /\ get(index, n).number = key

\* C24: range(from, to) is false exactly when the index is closed or, with
\* the negative bounds normalised, from < 1 or to > length or from > to;
\* otherwise it is exactly the entries from..to in ascending order, and the
\* same after the index was closed and opened again.
C24_RangeFalseOrEntries ==
    \A from \in RangeArgs, to \in RangeArgs \cup {Omitted} :
       LET length == Len(index.entries)
           f == wrap(from, length)
           u == IF to = Omitted THEN length ELSE wrap(to, length)
           r == range(index, from, to)
       IN /\ ~r.ok <=> (~index.fd \/ f < 1 \/ u > length \/ f > u)
          /\ r.ok => /\ r.entries = SubSeq(index.entries, f, u)
                     /\ Len(r.entries) = u - f + 1
                     /\ \A i \in 2..Len(r.entries) :
                           r.entries[i - 1].number < r.entries[i].number
          /\ index.fd => range(openIndex(closeIndex(index)), from, to) = r

\* An index with flushed and unflushed entries where a range inside the index
\* covers both, where a range with negative bounds is answered and where
\* ranges are refused for each of the three reasons.
C24_Witness ==
    /\ index.fd
    /\ Len(index.file) >= 2 /\ Len(index.writeBuffer) >= 2
    /\ range(index, 2, index.length - 1).ok
    /\ range(index, -2, -1).ok
    /\ ~range(index, 0, 1).ok
    /\ ~range(index, 1, index.length + 1).ok
    /\ ~range(index, 3, 2).ok

\* C25: negative bounds of range count from the end with -1 for the last
\* entry: on an open index of length L and for 1 <= k <= L, range(-k) is
\* exactly the last k entries, L-k+1 .. L, and range(1, -k) is exactly the
\* L-k entries 1 .. L-k.
C25_NegativeBoundsFromEnd ==
    index.fd =>
       LET length == Len(index.entries)
       IN \A k \in 1..length :
             /\ range(index, -k, Omitted).ok
             /\ range(index, -k, Omitted).entries
                   = SubSeq(index.entries, length - k + 1, length)
             /\ range(index, 1, -k).entries = SubSeq(index.entries, 1, length - k)

\* C26: truncate(n) leaves the length at min(length, n), whether the entries
\* beyond n were flushed or are still in the append buffer; the entries up to
\* n stay, the length survives close and reopen, get(n + 1) is false then,
\* truncate with n >= length changes nothing, and a second truncate(n)
\* changes nothing either.
C26_TruncateIndex ==
    index.fd =>
       \A n \in TruncateArgs :
          LET length == Len(index.entries)
              t == truncateIndex(index, n)
              reopened == openIndex(closeIndex(t))
          IN /\ t.length = Min(length, n)
             /\ get(t, n + 1) = NoEntry
             /\ \A i \in 1..Min(length, n) : get(t, i) = index.entries[i]
             /\ reopened.length = Min(length, n)
             /\ get(reopened, n + 1) = NoEntry
             /\ \A i \in 1..Min(length, n) : get(reopened, i) = index.entries[i]
             /\ n >= length => t = index
             /\ truncateIndex(t, n) = t

\* An index with flushed and unflushed entries that truncate cuts in the
\* middle of the append buffer, and that it cuts in the flushed part.
C26_Witness ==
    /\ index.fd
    /\ Len(index.file) >= 2 /\ Len(index.writeBuffer) >= 2
    /\ truncateIndex(index, Len(index.file) + 1).length = Len(index.file) + 1
    /\ Len(truncateIndex(index, Len(index.file) + 1).file) = Len(index.file) + 1
    /\ truncateIndex(index, 1).length = 1
    /\ index.emitted.event = "truncate"

\* The events of one kind that the storage has emitted, in order.
emittedOf(r, kind) == SelectSeq(r.emitted, LAMBDA e : e.event = kind)

\* A file name that the watcher takes for a partition of this storage.
IsPartitionOfStorage(filename) ==
    /\ substrFrom(filename, -7) # BranchSuffix
    /\ substrFrom(filename, -6) # IndexSuffix
    /\ substr(filename, 0, Len(storageFile)) = storageFile

\* C27: a read-only storage registers a partition exactly once: the first
\* notification (other than 'change') for a partition file of this storage
\* that is not registered adds it to the partition map under its id and emits
\* one 'partition-created' with that id; a further notification for a
\* registered partition changes nothing and emits nothing; so every id in the
\* map was announced by exactly one 'partition-created'.
C27_PartitionRegisteredOnce ==
    /\ \A filename \in Filenames :
          IsPartitionOfStorage(filename) =>
             LET r == onDirectoryContentsChanged(reader, "rename", filename)
                 id == idFor(filename)
             IN /\ id \in DOMAIN r.partitions /\ r.partitions[id] = filename
                /\ id \notin DOMAIN reader.partitions =>
                      /\ r.emitted = Append(reader.emitted,
                                            [event |-> "partition-created", arg |-> id])
                      /\ DOMAIN r.partitions = DOMAIN reader.partitions \cup {id}
                      /\ \A other \in DOMAIN reader.partitions :
                            r.partitions[other] = reader.partitions[other]
                /\ id \in DOMAIN reader.partitions => r = reader
                /\ \A eventType \in EventTypes :
                      onDirectoryContentsChanged(r, eventType, filename) = r
    /\ \A id \in DOMAIN reader.partitions :
          Cardinality({ i \in 1..Len(reader.emitted) :
                          reader.emitted[i] = [event |-> "partition-created", arg |-> id] }) = 1
    /\ Len(emittedOf(reader, "partition-created")) = Cardinality(DOMAIN reader.partitions)
    /\ \A f, g \in PartitionFiles : idFor(f) = idFor(g) => f = g

\* A partition was registered, was reported again, and another one is still
\* to be registered.
C27_Witness ==
    /\ Cardinality(DOMAIN reader.partitions) = 1
    /\ Len(emittedOf(reader, "partition-created")) = 1
    /\ Len(emittedOf(reader, "index-created")) >= 1
    /\ reader.emitted[1].event = "partition-created"
    /\ \E f \in PartitionFiles : idFor(f) \notin DOMAIN reader.partitions

\* C28: the directory watcher ignores every 'change' notification and every
\* file whose name ends in '.branch': the partition map stays as it is and
\* nothing is emitted; a notification for an '.index' file emits nothing but
\* 'index-created' with the file name (and that only for an index of this
\* storage), and neither the partition map nor the index of the reader changes.
C28_ChangeBranchIndexIgnored ==
    /\ \A filename \in Filenames :
          /\ onDirectoryContentsChanged(reader, "change", filename) = reader
          /\ substrFrom(filename, -7) = BranchSuffix =>
                \A eventType \in EventTypes :
                   onDirectoryContentsChanged(reader, eventType, filename) = reader
          /\ substrFrom(filename, -6) = IndexSuffix =>
                LET r == onDirectoryContentsChanged(reader, "rename", filename)
                    created == [event |-> "index-created", arg |-> filename]
                IN /\ r.partitions = reader.partitions
                   /\ r.indexLength = reader.indexLength
                   /\ r = [reader EXCEPT !.emitted = r.emitted]
                   /\ r.emitted \in {reader.emitted, Append(reader.emitted, created)}
                   /\ substr(filename, 0, Len(storageFile)) = storageFile =>
                         r.emitted = Append(reader.emitted, created)
    /\ \A id \in DOMAIN reader.partitions :
          /\ substrFrom(reader.partitions[id], -7) # BranchSuffix
          /\ substrFrom(reader.partitions[id], -6) # IndexSuffix
    /\ \A i \in 1..Len(reader.emitted) :
          /\ reader.emitted[i].event = "partition-created" =>
                \E f \in AllFilenames : /\ reader.emitted[i].arg = idFor(f)
                                        /\ substrFrom(f, -7) # BranchSuffix
                                        /\ substrFrom(f, -6) # IndexSuffix
          /\ reader.emitted[i].event = "index-created" =>
                /\ substrFrom(reader.emitted[i].arg, -6) = IndexSuffix
                /\ substr(reader.emitted[i].arg, 0, Len(storageFile)) = storageFile

\* One partition is registered and one is not, and both indexes of the storage
\* were reported.
C28_Witness ==
    /\ Cardinality(DOMAIN reader.partitions) = 1
    /\ { e.arg : e \in Range(emittedOf(reader, "index-created")) }
          = { f \in Filenames : /\ substrFrom(f, -6) = IndexSuffix
                                /\ substr(f, 0, Len(storageFile)) = storageFile }
    /\ Len(emittedOf(reader, "index-created")) >= 2

\* The index-add event for an entry.
indexAdd(r, entry) ==
    [event |-> "index-add", name |-> IndexName, number |-> entry.number,
     document |-> r.documents[entry.partition][entry.position + 1]]

C30_SizeIsDiskPlusBuffer ==
    /\ fd => size = Len(Body) + writeBufferCursor
    /\ \A i \in 1..Len(calls) : calls[i].size = calls[i].onDisk + calls[i].inBuffer

\* The primary-index entry the commit algorithm appends for document i of the
\* partition: the position write returned and the size of the framed document.
indexEntry(w, i) ==
    [number |-> i, position |-> w.docs[i].pos, size |-> byteLength(w.docs[i].data) + 11]

\* C31: the index entry recorded for a document of n payload bytes (position as
\* returned by write, size n + 11) reads the document back: readFrom(position,
\* size), as the index append handler calls it, returns the payload and does
\* not fail with InvalidDataSizeError (stated for non-empty ASCII payloads
\* written by callers, everything flushed, without truncation or reopening).
C31_IndexEntryReadsBack ==
    (fd /\ ~truncated /\ ~closed /\ writeBufferCursor = 0
        /\ \A i \in 1..Len(docs) : Plain(i)) =>
        \A i \in 1..Len(docs), g \in GarbageBytes :
            LET entry == indexEntry(World, i)
                r == readFrom(World, entry.position, entry.size, g)
            IN r.kind # "InvalidDataSizeError"

\* C32: the buffered write path stores exactly n + 11 bytes per document, n the
\* UTF-8 byte length of the payload: for every payload that fits the write
\* buffer, multi-byte characters included, writeBufferCursor advances by as
\* much as size does, and after the flush the file holds the bytes the direct
\* path writes for the same document (stated for an open partition with an
\* empty write buffer).
C32_BufferedStoresUtf8Bytes ==
    (fd /\ writeBufferCursor = 0) =>
        \A data \in Payloads :
            byteLength(data) + 11 <= writeBufferSize =>
                LET dataToWrite == pad(toString(byteLength(data)), 10) \o data \o <<10>>
                    buffered == write(World, data, "none")
                    direct == writeUnbuffered(World, Len(docs) + 1, dataToWrite, "none")
                IN /\ maxWriteBufferDocuments = 0 =>
                         buffered.writeBufferCursor - writeBufferCursor
                            = buffered.size - size
                   /\ flush(buffered).file = direct.file

\* Document i was removed by a truncation: a later document starts at or below
\* its position (callers' callbacks writing nothing, positions only go back
\* through truncate).
Removed(i) == \E j \in (i + 1)..Len(docs) : docs[j].pos <= docs[i].pos

\* C33: after truncate(p) followed by new writes, readFrom at a position >= p
\* returns only newly written documents: where a document was removed by a
\* truncation and another one was written at its position, readFrom at that
\* position never returns the payload of the removed one (stated for writes
\* by callers whose callbacks write nothing).
C33_TruncatedNeverRead ==
    (fd /\ \A i \in 1..Len(docs) : docs[i].callback \in {"none", "noop"}) =>
        \A i, j \in 1..Len(docs), g \in GarbageBytes :
            (/\ Removed(i) /\ ~Removed(j)
             /\ docs[j].pos = docs[i].pos
             /\ docs[j].data # docs[i].data) =>
                LET r == readFrom(World, docs[j].pos, 0, g)
                IN ~(r.kind = "data" /\ r.data = docs[i].data)

\* C34: every document write accepted can be read back, for every payload
\* length, the empty payload included: readFrom at the position write returned
\* yields the payload without throwing, and readAll does not fail (stated for
\* ASCII payloads written by callers whose callbacks write nothing, before
\* anything was read, without truncation or reopening).
C34_AcceptedIsReadable ==
    (/\ fd /\ ~truncated /\ ~closed /\ readBufferPos = -1
     /\ \A i \in 1..Len(docs) : /\ Ascii(docs[i].data)
                                /\ docs[i].callback \in {"none", "noop"}) =>
        \A g \in GarbageBytes :
            /\ \A i \in 1..Len(docs) :
                  LET r == readFrom(World, docs[i].pos, 0, g)
                  IN r.kind = "data" /\ r.data = docs[i].data
            /\ readAll(World, g).kind = "end"

\* C35: while the partition is not open, no operation called on it (write,
\* flush, readFrom, truncate, close) changes the partition file or the size.
C35_ClosedIsFrozen ==
    [][(~fd /\ ~fd') => (file' = file /\ size' = size)]_vars

\* C36: a callback given to write is never invoked before that write call has
\* returned its position, for every configuration, maxWriteBufferDocuments > 0
\* included: at every invocation the position is known and size accounts for
\* the document.
C36_CallbackAfterReturn ==
    \A i \in 1..Len(calls) :
        /\ calls[i].returned
        /\ calls[i].size >= byteLength(docs[calls[i].id].data) + 11

\* A file of this storage: its name is the storage name, a dot and more.
BelongsToStorage(filename) ==
    substr(filename, 0, Len(storageFile) + 1) = storageFile \o <<46>>

\* C37: the read-only storage ignores directory notifications for files that
\* do not belong to it, a file of a storage whose name starts with the name of
\* this storage included: no partition is registered and nothing is emitted.
C37_ForeignFilesIgnored ==
    /\ \A filename \in AllFilenames, eventType \in EventTypes :
          (reader.watcher /\ ~BelongsToStorage(filename)) =>
             onDirectoryContentsChanged(reader, eventType, filename) = reader
    /\ \A id \in DOMAIN reader.partitions : BelongsToStorage(reader.partitions[id])

\* C38: the read-only storage registers only partition files as partitions: a
\* notification for a file of the storage that is not a partition (the lock
\* file, the streams catalog, a consumer checkpoint) registers no partition
\* and emits no 'partition-created'.
C38_OnlyPartitionsRegistered ==
    /\ \A filename \in SidecarFiles, eventType \in EventTypes :
          reader.watcher =>
             LET r == onDirectoryContentsChanged(reader, eventType, filename)
             IN /\ r.partitions = reader.partitions
                /\ emittedOf(r, "partition-created") = emittedOf(reader, "partition-created")
    /\ \A id \in DOMAIN reader.partitions : reader.partitions[id] \notin SidecarFiles

\* C39: for an EventStream over any finite iterator, consuming it as a
\* readable stream ('data' events until the end) and iterating it with
\* for..of both deliver exactly the payloads of all items, in order, for every
\* payload value, 0, '', null and false included; with no iterator given, both
\* deliver nothing.
C39_BothDeliverAllPayloads ==
    /\ eventStream.ended => eventStream.delivered = eventStream.iterator
    /\ ~eventStream.given => eventStream.delivered = <<>>

\* The watchers of the read-only storage that were created and not closed.
ActiveWatchers(r) == { i \in 1..Len(r.watchers) : r.watchers[i] }

\* C40: a read-only storage has at most one active directory watcher at any
\* time: repeated open calls create only one, close releases and clears it so
\* that a later open creates a fresh one, and between close and the next open
\* no directory notification changes the partition map or emits an event.
C40_OneWatcher ==
    /\ [](/\ Cardinality(ActiveWatchers(reader)) <= 1
          /\ reader.watcher <=> ActiveWatchers(reader) # {}
          /\ openReader(openReader(reader)) = openReader(reader)
          /\ ActiveWatchers(closeReader(reader)) = {}
          /\ ~closeReader(reader).watcher
          /\ LET r == openReader(closeReader(reader))
             IN /\ r.watcher
                /\ ActiveWatchers(r) = {Len(r.watchers)}
                /\ Len(r.watchers) = Len(reader.watchers) + 1)
    /\ [][(~reader.watcher /\ ~reader'.watcher) =>
             /\ reader'.partitions = reader.partitions
             /\ reader'.emitted = reader.emitted]_vars

\* The storage was opened, registered a partition, was closed and opened
\* again, and registered another partition through its second watcher.
C40_Witness ==
    /\ reader.watchers = <<FALSE, TRUE>>
    /\ reader.watcher
    /\ Cardinality(DOMAIN reader.partitions) = 2
====
